---------------------------- MODULE Spec2Model ----------------------------
(***************************************************************************)
(* Model of fastapi_address2zip: AddressNormalizer (address_normalizer.py), *)
(* AddressResolver (address_resolver.py) and the address2zipcode endpoint   *)
(* (main.py).                                                               *)
(*                                                                          *)
(* A Python str is a sequence of characters; a character is a token (a      *)
(* TLA+ string naming the code point).  Tokens with a meaning to the code:  *)
(*   "0".."9"      ASCII digits          "F0".."F9"  full-width digits      *)
(*   "k1".."k10"   kanji numerals U+4E00 (ichi) .. U+5341 (juu)             *)
(*   "A","b"       ASCII letters         "FA","Fb"   full-width letters     *)
(*   "to" U+90FD  "dou" U+9053  "fu" U+5E9C  "ken" U+770C  (prefecture)     *)
(*   "shi" U+5E02 "ku" U+533A "machi" U+753A "mura" U+6751 "gun" U+90E1     *)
(*   "chou" U+4E01 "me" U+76EE (chome)   "jou" U+6761 (jo)                  *)
(*   "ban" U+756A  "chi" U+5730 (banchi) "gou" U+53F7                       *)
(*   "-" U+002D    "MINUS" U+2212        "TILDE" U+301C                     *)
(*   "LP","RP" full-width parentheses    "lp","rp" ASCII parentheses        *)
(*   "oo" U+5927  "aza" U+5B57 (oaza = oo aza)   "KE" U+30B1  "ke" U+30F6   *)
(*   "SP" U+0020  "ISP" U+3000 (whitespace)                                 *)
(*   "so","no","ta"  sonota (other)      "shin","den" U+65B0 U+7530         *)
(*   upper-case names (HI, RU, ZU, ...) are katakana of the building words  *)
(* Every other token is a character with no meaning to the code.            *)
(***************************************************************************)
EXTENDS Integers, Sequences, FiniteSets, TLC

\* ------------------------------------------------------------------------
\* Python values
\* ------------------------------------------------------------------------

\* None where a str is expected (no str holds the token "#None")
NoneStr == <<"#None">>
\* None where an int is expected
NoneInt == -1
\* None where a postal code is expected
NoneZip == "None"

\* ------------------------------------------------------------------------
\* Character classes and str helpers
\* ------------------------------------------------------------------------

HalfDigits == <<"0", "1", "2", "3", "4", "5", "6", "7", "8", "9">>
FullDigits == <<"F0", "F1", "F2", "F3", "F4", "F5", "F6", "F7", "F8", "F9">>
KanjiDigits == <<"k1", "k2", "k3", "k4", "k5", "k6", "k7", "k8", "k9">>

Range(f) == {f[i] : i \in DOMAIN f}

\* [0-9]
AsciiDigit == Range(HalfDigits)
\* [０-９]
FullDigit == Range(FullDigits)
\* \d of a Python 3 str pattern: decimal digits of either width
AnyDigit == AsciiDigit \cup FullDigit
\* [一二三四五六七八九十]
KanjiNum == Range(KanjiDigits) \cup {"k10"}
\* [-−]
Hyphen == {"-", "MINUS"}
\* what str.strip() removes
Whitespace == {"SP", "ISP"}

PosOf(f, c) == CHOOSE i \in DOMAIN f : f[i] = c

\* value of one decimal digit (either width)
DigitVal(c) == IF c \in AsciiDigit THEN PosOf(HalfDigits, c) - 1
               ELSE PosOf(FullDigits, c) - 1

\* int(s) for a non-empty run of decimal digits
RECURSIVE IntOf(_)
IntOf(s) == IF Len(s) = 0 THEN 0
            ELSE 10 * IntOf(SubSeq(s, 1, Len(s) - 1)) + DigitVal(s[Len(s)])

\* str(n) for n >= 0
RECURSIVE StrOf(_)
StrOf(n) == IF n < 10 THEN <<HalfDigits[n + 1]>>
            ELSE StrOf(n \div 10) \o <<HalfDigits[(n % 10) + 1]>>

\* least element of a set of positions, 0 when there is none
FirstIdx(S) == IF S = {} THEN 0 ELSE CHOOSE i \in S : \A j \in S : i <= j
\* greatest element of a set of positions, 0 when there is none
LastIdx(S) == IF S = {} THEN 0 ELSE CHOOSE i \in S : \A j \in S : j <= i

\* p occurs in s at position i
IsSubAt(s, p, i) == /\ i >= 1
                    /\ i + Len(p) - 1 <= Len(s)
                    /\ \A k \in 1..Len(p) : s[i + k - 1] = p[k]

\* s.startswith(p)
StartsWith(s, p) == IsSubAt(s, p, 1)
\* s.endswith(p)
EndsWith(s, p) == IsSubAt(s, p, Len(s) - Len(p) + 1)
\* position of the first occurrence of p in s at or after from, 0 when none
FindFrom(s, p, from) == FirstIdx({i \in from..(Len(s) - Len(p) + 1) : IsSubAt(s, p, i)})
Find(s, p) == FindFrom(s, p, 1)
\* p in s
Contains(s, p) == \E i \in 1..(Len(s) - Len(p) + 1) : IsSubAt(s, p, i)

\* s[:i-1] and s[i:]
Before(s, i) == SubSeq(s, 1, i - 1)
From(s, i) == SubSeq(s, i, Len(s))

\* end of the longest run of characters of class C that starts at i
RunEnd(s, i, C) == LastIdx({e \in i..Len(s) : \A k \in i..e : s[k] \in C})

\* s.replace(old, new) for a non-empty old
RECURSIVE Replace(_, _, _)
Replace(s, old, new) ==
    LET i == Find(s, old)
    IN  IF i = 0 THEN s
        ELSE Before(s, i) \o new \o Replace(From(s, i + Len(old)), old, new)

\* s.strip()
Strip(s) ==
    LET keep == {i \in 1..Len(s) : s[i] \notin Whitespace}
    IN  IF keep = {} THEN <<>> ELSE SubSeq(s, FirstIdx(keep), LastIdx(keep))

\* re.sub(r'KEYWORD.*$', '', s): s cut at the first occurrence of kw
CutAt(s, kw) == LET i == Find(s, kw) IN IF i = 0 THEN s ELSE Before(s, i)

\* A pattern [0-9]+ REST whose REST starts with a non-digit matches at i
\* exactly when the whole run of digits starting at i is followed by REST;
\* its leftmost match is then the start of a run.

\* ------------------------------------------------------------------------
\* AddressNormalizer
\* ------------------------------------------------------------------------

\* self.full_to_half_table / str.translate
FullToHalfChar(c) ==
    IF c \in FullDigit THEN HalfDigits[PosOf(FullDigits, c)]
    ELSE IF c = "FA" THEN "A"
    ELSE IF c = "Fb" THEN "b"
    ELSE c
\* a table that holds the digits only
full_to_half_digits(s) ==
    [i \in 1..Len(s) |-> IF s[i] \in FullDigit THEN FullToHalfChar(s[i]) ELSE s[i]]

\* address.translate(self.full_to_half_table)
full_to_half(s) == [i \in 1..Len(s) |-> FullToHalfChar(s[i])]

\* the largest number the kanji conversion yields
MaxKanjiNumber == 48

\* kanji_digits
kanji_digits(c) == PosOf(KanjiDigits, c)
InKanjiDigits(c) == c \in Range(KanjiDigits)

\* AddressResolver._convert_kanji_to_number
_convert_kanji_to_number(k) ==
    IF Len(k) = 1 /\ InKanjiDigits(k[1]) THEN kanji_digits(k[1])
    ELSE IF k = <<"k10">> THEN 10
    ELSE IF Len(k) = 2 /\ k[1] = "k10" /\ InKanjiDigits(k[2]) THEN 10 + kanji_digits(k[2])
    ELSE IF Len(k) = 2 /\ k[2] = "k10" /\ InKanjiDigits(k[1])
         THEN (IF kanji_digits(k[1]) * 10 <= MaxKanjiNumber THEN kanji_digits(k[1]) * 10 ELSE NoneInt)
    ELSE IF Len(k) = 3 /\ k[2] = "k10" /\ InKanjiDigits(k[1]) /\ InKanjiDigits(k[3])
         THEN (IF kanji_digits(k[1]) * 10 + kanji_digits(k[3]) <= MaxKanjiNumber
               THEN kanji_digits(k[1]) * 10 + kanji_digits(k[3]) ELSE NoneInt)
    ELSE NoneInt

\* a conversion that forgets the limit of 48
_convert_kanji_to_number_simple_nolimit(k) ==
    IF Len(k) = 1 /\ InKanjiDigits(k[1]) THEN StrOf(kanji_digits(k[1]))
    ELSE IF k = <<"k10">> THEN <<"1", "0">>
    ELSE IF Len(k) = 2 /\ k[1] = "k10" /\ InKanjiDigits(k[2]) THEN StrOf(10 + kanji_digits(k[2]))
    ELSE IF Len(k) = 2 /\ k[2] = "k10" /\ InKanjiDigits(k[1]) THEN StrOf(kanji_digits(k[1]) * 10)
    ELSE IF Len(k) = 3 /\ k[2] = "k10" /\ InKanjiDigits(k[1]) /\ InKanjiDigits(k[3])
         THEN StrOf(kanji_digits(k[1]) * 10 + kanji_digits(k[3]))
    ELSE NoneStr

\* AddressNormalizer._convert_kanji_to_number_simple: the same table, as a str
_convert_kanji_to_number_simple(k) ==
    IF Len(k) = 1 /\ InKanjiDigits(k[1]) THEN StrOf(kanji_digits(k[1]))
    ELSE IF k = <<"k10">> THEN <<"1", "0">>
    ELSE IF Len(k) = 2 /\ k[1] = "k10" /\ InKanjiDigits(k[2]) THEN StrOf(10 + kanji_digits(k[2]))
    ELSE IF Len(k) = 2 /\ k[2] = "k10" /\ InKanjiDigits(k[1])
         THEN (IF kanji_digits(k[1]) * 10 <= MaxKanjiNumber THEN StrOf(kanji_digits(k[1]) * 10) ELSE NoneStr)
    ELSE IF Len(k) = 3 /\ k[2] = "k10" /\ InKanjiDigits(k[1]) /\ InKanjiDigits(k[3])
         THEN (IF kanji_digits(k[1]) * 10 + kanji_digits(k[3]) <= MaxKanjiNumber
               THEN StrOf(kanji_digits(k[1]) * 10 + kanji_digits(k[3])) ELSE NoneStr)
    ELSE NoneStr

Chome == <<"chou", "me">>
Jo == <<"jou">>

\* re.sub(r'([kanji]+)MARKER', replace, s) from position i on: every whole run
\* of kanji numerals followed by the marker is replaced by its number when
\* it has one
RECURSIVE SubKanji(_, _, _)
SubKanji(s, marker, i) ==
    IF i > Len(s) THEN <<>>
    ELSE IF s[i] \in KanjiNum
    THEN LET e == RunEnd(s, i, KanjiNum)
             run == SubSeq(s, i, e)
             converted == _convert_kanji_to_number_simple(run)
         IN  IF IsSubAt(s, marker, e + 1)
             THEN (IF converted # NoneStr THEN converted ELSE run)
                  \o marker \o SubKanji(s, marker, e + Len(marker) + 1)
             ELSE run \o SubKanji(s, marker, e + 1)
    ELSE <<s[i]>> \o SubKanji(s, marker, i + 1)

\* AddressNormalizer._convert_kanji_numbers
_convert_kanji_numbers(address) == SubKanji(SubKanji(address, Chome, 1), Jo, 1)

\* self.num_to_kanji: '1'..'10'
InNumToKanji(d) == \/ Len(d) = 1 /\ d[1] \in AsciiDigit /\ d[1] # "0"
                   \/ d = <<"1", "0">>
num_to_kanji(d) == IF d = <<"1", "0">> THEN <<"k10">> ELSE <<KanjiDigits[DigitVal(d[1])]>>

\* re.sub(r'([0-9]+)MARKER', replace, s) from position i on
RECURSIVE SubArabic(_, _, _)
SubArabic(s, marker, i) ==
    IF i > Len(s) THEN <<>>
    ELSE IF s[i] \in AsciiDigit
    THEN LET e == RunEnd(s, i, AsciiDigit)
             run == SubSeq(s, i, e)
         IN  IF IsSubAt(s, marker, e + 1)
             THEN (IF InNumToKanji(run) THEN num_to_kanji(run) ELSE run)
                  \o marker \o SubArabic(s, marker, e + Len(marker) + 1)
             ELSE run \o SubArabic(s, marker, e + 1)
    ELSE <<s[i]>> \o SubArabic(s, marker, i + 1)

\* AddressNormalizer._convert_arabic_to_kanji
_convert_arabic_to_kanji(district) == SubArabic(SubArabic(district, Jo, 1), Chome, 1)

\* the building words of _remove_building_info, in the order they are tried
BuildingPatterns == <<
    <<"HI", "RU", "ZU">>,
    <<"TA", "WA", "LONG">>,
    <<"BI", "RU">>,
    <<"MA", "N", "SI", "yO", "N">>,
    <<"KA_A", "PA", "LONG", "TO">>,
    <<"HA", "KA_I", "TSU">>,
    <<"KO", "LONG", "PO">>,
    <<"PU", "RA", "ZA">>,
    <<"SE", "N", "TA", "LONG">>,
    <<"FU", "yI", "NA", "N", "SI", "yA", "RU">> >>

RECURSIVE CutAll(_, _, _)
CutAll(s, pats, i) == IF i > Len(pats) THEN s ELSE CutAll(CutAt(s, pats[i]), pats, i + 1)

\* re.search(r'[0-9]+banchi$', address)
EndsWithLot(address) ==
    /\ EndsWith(address, <<"ban", "chi">>)
    /\ Len(address) >= 3
    /\ address[Len(address) - 2] \in AsciiDigit

\* re.sub(r'[0-9]+[-−][0-9]+[-−]*[0-9]*.*$', '', s)
HouseNumberAt(s, i) ==
    /\ s[i] \in AsciiDigit
    /\ LET e == RunEnd(s, i, AsciiDigit)
       IN  e + 2 <= Len(s) /\ s[e + 1] \in Hyphen /\ s[e + 2] \in AsciiDigit
CutHouseNumber(s) ==
    LET i == FirstIdx({j \in 1..Len(s) : HouseNumberAt(s, j)})
    IN  IF i = 0 THEN s ELSE Before(s, i)

\* re.sub(r'[0-9]+ban[0-9]+gou?.*$', '', s); CutBanGo_none leaves the
\* pattern out
BanGoAt(s, i) ==
    /\ s[i] \in AsciiDigit
    /\ LET e == RunEnd(s, i, AsciiDigit)
       IN  e + 2 <= Len(s) /\ s[e + 1] = "ban" /\ s[e + 2] \in AsciiDigit
CutBanGo_none(s) == s
CutBanGo(s) ==
    LET i == FirstIdx({j \in 1..Len(s) : BanGoAt(s, j)})
    IN  IF i = 0 THEN s ELSE Before(s, i)

\* re.sub(r'([0-9]+chome)[0-9]+[-−].*$', r'\1', s)
ChomeNumberAt(s, i) ==
    /\ s[i] \in AsciiDigit
    /\ LET e == RunEnd(s, i, AsciiDigit)
       IN  /\ IsSubAt(s, Chome, e + 1)
           /\ e + 3 <= Len(s)
           /\ s[e + 3] \in AsciiDigit
           /\ LET e2 == RunEnd(s, e + 3, AsciiDigit)
              IN  e2 + 1 <= Len(s) /\ s[e2 + 1] \in Hyphen
CutAfterChome(s) ==
    LET i == FirstIdx({j \in 1..Len(s) : ChomeNumberAt(s, j)})
    IN  IF i = 0 THEN s ELSE SubSeq(s, 1, RunEnd(s, i, AsciiDigit) + 2)

\* AddressNormalizer._remove_building_info
_remove_building_info(address) ==
    IF EndsWithLot(address) THEN address
    ELSE CutAll(CutAfterChome(CutBanGo(CutHouseNumber(address))), BuildingPatterns, 1)

\* a blank check that forgets whitespace: "if not address"
IsBlank_empty(address) == address = <<>>

\* "if not address or not address.strip()"
IsBlank(address) == Strip(address) = <<>>

\* AddressNormalizer.normalize past its blank check
normalize_body(address) ==
    LET a1 == Strip(address)
        a2 == full_to_half(a1)
        a3 == _convert_kanji_numbers(a2)
        a4 == _remove_building_info(a3)
        a5 == Replace(a4, <<"oo", "aza">>, <<>>)
        a6 == Replace(a5, <<"aza">>, <<>>)
        a7 == Replace(a6, <<"KE">>, <<"ke">>)
    IN  Strip(a7)

\* AddressNormalizer.normalize: [exc, val]; exc is "ValueError" or "none"
normalize(address) ==
    IF IsBlank(address) THEN [exc |-> "ValueError", val |-> <<>>]
    ELSE [exc |-> "none", val |-> normalize_body(address)]

\* [都道府県], [町村]
PrefectureMarker == {"to", "dou", "fu", "ken"}
TownMarker == {"machi", "mura"}

FirstOf(s, C) == FirstIdx({i \in 1..Len(s) : s[i] \in C})
FirstOfAfter(s, C, from) == FirstIdx({i \in (from + 1)..Len(s) : s[i] \in C})
LastOf(s, C) == LastIdx({i \in 1..Len(s) : s[i] \in C})

\* "." matches no line break: a pattern anchored at the start sees the
\* first line only
FirstLine(s) == LET n == FirstOf(s, {"NL"}) IN IF n = 0 THEN s ELSE Before(s, n)

\* the city patterns with the greedy "up to the last shi" tried first
CityEnd_greedy_first(remaining) ==
    LET shi == FirstOf(remaining, {"shi"})
        shiKu == IF shi = 0 THEN 0 ELSE FirstOfAfter(remaining, {"ku"}, shi)
        gun == FirstOf(remaining, {"gun"})
        gunCho == IF gun = 0 THEN 0 ELSE FirstOfAfter(remaining, TownMarker, gun)
    IN  IF LastOf(remaining, {"shi"}) # 0 THEN LastOf(remaining, {"shi"})
        ELSE IF shiKu # 0 THEN shiKu
        ELSE IF gunCho # 0 THEN gunCho
        ELSE IF FirstOf(remaining, {"ku"}) # 0 THEN FirstOf(remaining, {"ku"})
        ELSE IF FirstOf(remaining, TownMarker) # 0 THEN FirstOf(remaining, TownMarker)
        ELSE gun

\* the six city patterns of parse_address: the end of the match of the first
\* pattern that matches remaining, 0 when none does
CityEnd(remaining) ==
    LET shi == FirstOf(remaining, {"shi"})
        shiKu == IF shi = 0 THEN 0 ELSE FirstOfAfter(remaining, {"ku"}, shi)
        gun == FirstOf(remaining, {"gun"})
        gunCho == IF gun = 0 THEN 0 ELSE FirstOfAfter(remaining, TownMarker, gun)
    IN  IF shiKu # 0 THEN shiKu
        ELSE IF gunCho # 0 THEN gunCho
        ELSE IF LastOf(remaining, {"shi"}) # 0 THEN LastOf(remaining, {"shi"})
        ELSE IF FirstOf(remaining, {"ku"}) # 0 THEN FirstOf(remaining, {"ku"})
        ELSE IF FirstOf(remaining, TownMarker) # 0 THEN FirstOf(remaining, TownMarker)
        ELSE gun

ParseError == [exc |-> "ValueError", prefecture |-> <<>>, city |-> <<>>, district |-> <<>>]

\* AddressNormalizer.parse_address: [exc, prefecture, city, district]
parse_address(address) ==
    LET p == FirstOf(FirstLine(address), PrefectureMarker)
        remaining == From(address, p + 1)
        c == CityEnd(FirstLine(remaining))
    IN  IF p = 0 THEN ParseError
        ELSE IF c = 0 THEN ParseError
        ELSE [exc |-> "none",
              prefecture |-> SubSeq(address, 1, p),
              city |-> SubSeq(remaining, 1, c),
              district |-> From(remaining, c + 1)]

\* re.sub(r'[0-9]+chome.*$', '', district)
\* a run of class C followed by chome starts at i: C+chome
ChomeAt(s, i, C) == s[i] \in C /\ IsSubAt(s, Chome, RunEnd(s, i, C) + 1)
FirstChome(s, C) == FirstIdx({j \in 1..Len(s) : ChomeAt(s, j, C)})
CutChome(s) ==
    LET i == FirstChome(s, AsciiDigit) IN IF i = 0 THEN s ELSE Before(s, i)

\* the prefix up to the last occurrence of marker: a greedy (.*MARKER)
PrefixThrough_greedy(s, marker) ==
    LET i == LastIdx({j \in 1..Len(s) : IsSubAt(s, marker, j)})
    IN  IF i = 0 THEN NoneStr ELSE SubSeq(s, 1, i + Len(marker) - 1)

\* the prefix of s up to and including the first occurrence of marker,
\* NoneStr when there is none: re.search(r'^(.*?MARKER)', s)
PrefixThrough(s, marker) ==
    LET i == Find(s, marker) IN IF i = 0 THEN NoneStr ELSE SubSeq(s, 1, i + Len(marker) - 1)

\* base_patterns of generate_district_variants
base_patterns == << <<"machi">>, <<"shin", "den", "machi">>, <<"oo", "aza">> >>

\* the loop over base_patterns: the variant it appends (<<>> when none)
RECURSIVE BaseVariant(_, _)
BaseVariant(district, i) ==
    IF i > Len(base_patterns) THEN <<>>
    ELSE LET base_district == PrefixThrough(district, base_patterns[i])
         IN  IF /\ base_district # NoneStr
                /\ base_district # district
                /\ Strip(base_district) # <<>>
             THEN <<base_district>>
             ELSE BaseVariant(district, i + 1)

InSeq(x, seq) == \E i \in 1..Len(seq) : seq[i] = x

\* the loop without its "not in unique_variants" test
RECURSIVE UniqueVariants_keep(_, _, _)
UniqueVariants_keep(variants, i, unique) ==
    IF i > Len(variants) THEN unique
    ELSE LET variant == Strip(variants[i])
         IN  UniqueVariants_keep(variants, i + 1,
                 IF variant # <<>> THEN Append(unique, variant) ELSE unique)

\* the de-duplication loop of generate_district_variants
RECURSIVE UniqueVariants(_, _, _)
UniqueVariants(variants, i, unique) ==
    IF i > Len(variants) THEN unique
    ELSE LET variant == Strip(variants[i])
         IN  UniqueVariants(variants, i + 1,
                 IF variant # <<>> /\ ~InSeq(variant, unique)
                 THEN Append(unique, variant) ELSE unique)

\* the variants with step 3 (chome removed) appended before step 2
generate_district_variants_chome_first(district) ==
    LET kanji_version == _convert_arabic_to_kanji(district)
        district_without_chome == CutChome(district)
        kanji_without_chome == _convert_arabic_to_kanji(district_without_chome)
        district_without_banchi == CutHouseNumber(district)
        v1 == <<district>>
        v2 == IF kanji_version # district THEN <<kanji_version>> ELSE <<>>
        v3 == IF district_without_chome # district /\ Strip(district_without_chome) # <<>>
              THEN <<district_without_chome>>
                   \o (IF kanji_without_chome # district_without_chome
                       THEN <<kanji_without_chome>> ELSE <<>>)
              ELSE <<>>
        v4 == IF district_without_banchi # district /\ Strip(district_without_banchi) # <<>>
              THEN <<district_without_banchi>> ELSE <<>>
        v5 == BaseVariant(district, 1)
    IN  UniqueVariants(v1 \o v3 \o v2 \o v4 \o v5, 1, <<>>)

\* AddressNormalizer.generate_district_variants
generate_district_variants(district) ==
    LET kanji_version == _convert_arabic_to_kanji(district)
        district_without_chome == CutChome(district)
        kanji_without_chome == _convert_arabic_to_kanji(district_without_chome)
        district_without_banchi == CutHouseNumber(district)
        v1 == <<district>>
        v2 == IF kanji_version # district THEN <<kanji_version>> ELSE <<>>
        v3 == IF district_without_chome # district /\ Strip(district_without_chome) # <<>>
              THEN <<district_without_chome>>
                   \o (IF kanji_without_chome # district_without_chome
                       THEN <<kanji_without_chome>> ELSE <<>>)
              ELSE <<>>
        v4 == IF district_without_banchi # district /\ Strip(district_without_banchi) # <<>>
              THEN <<district_without_banchi>> ELSE <<>>
        v5 == BaseVariant(district, 1)
    IN  UniqueVariants(v1 \o v2 \o v3 \o v4 \o v5, 1, <<>>)

\* ------------------------------------------------------------------------
\* AddressResolver: the index
\* ------------------------------------------------------------------------

\* a chome range in parentheses starts at the "LP" at i: LP, a run of class C,
\* TILDE, a run of class C, chome, RP
RangeAt(s, i, C) ==
    /\ i + 1 <= Len(s) /\ s[i] = "LP" /\ s[i + 1] \in C
    /\ LET e == RunEnd(s, i + 1, C)
       IN  /\ e + 2 <= Len(s) /\ s[e + 1] = "TILDE" /\ s[e + 2] \in C
           /\ IsSubAt(s, Chome \o <<"RP">>, RunEnd(s, e + 2, C) + 1)
FirstRange(s, C) == FirstIdx({i \in 1..Len(s) : RangeAt(s, i, C)})
RangeStart(s, i, C) == SubSeq(s, i + 1, RunEnd(s, i + 1, C))
RangeEnd(s, i, C) ==
    LET e == RunEnd(s, i + 1, C) IN SubSeq(s, e + 2, RunEnd(s, e + 2, C))

\* a lot number in parentheses starts at the "LP" at i: LP, digits, banchi, RP
LotAt(s, i, C) ==
    /\ i + 1 <= Len(s) /\ s[i] = "LP" /\ s[i + 1] \in C
    /\ IsSubAt(s, <<"ban", "chi", "RP">>, RunEnd(s, i + 1, C) + 1)
FirstLot(s, C) == FirstIdx({i \in 1..Len(s) : LotAt(s, i, C)})

Others == <<"LP", "so", "no", "ta", "RP">>

\* re.sub(r'OPEN.*?CLOSE', '', s)
RECURSIVE RemoveParens(_, _, _)
RemoveParens(s, open, close) ==
    LET i == FirstOf(s, {open})
        j == IF i = 0 THEN 0 ELSE FirstOfAfter(s, {close}, i)
    IN  IF j = 0 THEN s
        ELSE Before(s, i) \o RemoveParens(From(s, j + 1), open, close)

\* a cleaning that keeps no parenthesis at all
_clean_district_name_remove_all(district) ==
    Strip(RemoveParens(RemoveParens(district, "LP", "RP"), "lp", "rp"))

\* AddressResolver._clean_district_name
_clean_district_name(district) ==
    IF FirstRange(district, AnyDigit \cup KanjiNum) # 0 THEN Strip(district)
    ELSE IF FirstLot(district, AnyDigit) # 0 \/ Contains(district, Others) THEN Strip(district)
    ELSE Strip(RemoveParens(RemoveParens(district, "LP", "RP"), "lp", "rp"))

\* the number of fields a registry row needs
MinFields == 9

\* The index: the entries [prefecture, city, district, zipcode] in the order
\* the nested dicts received them; a (prefecture, city, district) occurs once.
HasPrefecture(index, p) == \E i \in 1..Len(index) : index[i].prefecture = p
HasCity(index, p, c) ==
    \E i \in 1..Len(index) : index[i].prefecture = p /\ index[i].city = c
\* index[p][c] in insertion order: city_districts.items()
city_districts(index, p, c) ==
    SelectSeq(index, LAMBDA e : e.prefecture = p /\ e.city = c)
HasKey(cd, d) == \E i \in 1..Len(cd) : cd[i].district = d
\* city_districts[d]
Lookup(cd, d) == cd[CHOOSE i \in 1..Len(cd) : cd[i].district = d].zipcode

\* a pass that stores the code of every accepted row, the last one winning
InsertRow_overwrite(index, row) ==
    IF row.nfields < MinFields THEN index
    ELSE IF Strip(row.district) = <<>> THEN index
    ELSE LET district == _clean_district_name(row.district)
             same(e) == e.prefecture = row.prefecture /\ e.city = row.city
                        /\ e.district = district
         IN  IF HasKey(city_districts(index, row.prefecture, row.city), district)
             THEN [i \in 1..Len(index) |->
                      IF same(index[i]) THEN [index[i] EXCEPT !.zipcode = row.zipcode]
                      ELSE index[i]]
             ELSE Append(index, [prefecture |-> row.prefecture, city |-> row.city,
                                 district |-> district, zipcode |-> row.zipcode])

\* one pass of the loop of _build_index over a row
InsertRow(index, row) ==
    IF row.nfields < MinFields THEN index
    ELSE IF Strip(row.district) = <<>> THEN index
    ELSE LET district == _clean_district_name(row.district)
         IN  IF HasKey(city_districts(index, row.prefecture, row.city), district)
             THEN index
             ELSE Append(index, [prefecture |-> row.prefecture, city |-> row.city,
                                 district |-> district, zipcode |-> row.zipcode])

\* AddressResolver._build_index
RECURSIVE _build_index(_)
_build_index(rows) ==
    IF rows = <<>> THEN <<>>
    ELSE InsertRow(_build_index(SubSeq(rows, 1, Len(rows) - 1)), rows[Len(rows)])

\* ------------------------------------------------------------------------
\* AddressResolver: lookups
\* ------------------------------------------------------------------------

\* AddressResolver._extract_chome_number
_extract_chome_number(district) ==
    LET m == FirstChome(district, AnyDigit)
        full_width_match == FirstChome(district, FullDigit)
        kanji_match == FirstChome(district, KanjiNum)
    IN  IF m # 0 THEN IntOf(SubSeq(district, m, RunEnd(district, m, AnyDigit)))
        ELSE IF full_width_match # 0
        THEN IntOf(SubSeq(district, full_width_match,
                          RunEnd(district, full_width_match, FullDigit)))
        ELSE IF kanji_match # 0
        THEN _convert_kanji_to_number(SubSeq(district, kanji_match,
                                             RunEnd(district, kanji_match, KanjiNum)))
        ELSE NoneInt

NoneRange == <<NoneInt, NoneInt>>

\* AddressResolver._extract_chome_range: (start, end) or NoneRange
_extract_chome_range(district) ==
    LET full_width_match == FirstRange(district, FullDigit)
        half_width_match == FirstRange(district, AnyDigit)
        kanji_match == FirstRange(district, KanjiNum)
        start_num == _convert_kanji_to_number(RangeStart(district, kanji_match, KanjiNum))
        end_num == _convert_kanji_to_number(RangeEnd(district, kanji_match, KanjiNum))
    IN  IF full_width_match # 0
        THEN <<IntOf(RangeStart(district, full_width_match, FullDigit)),
               IntOf(RangeEnd(district, full_width_match, FullDigit))>>
        ELSE IF half_width_match # 0
        THEN <<IntOf(RangeStart(district, half_width_match, AnyDigit)),
               IntOf(RangeEnd(district, half_width_match, AnyDigit))>>
        ELSE IF kanji_match # 0 /\ start_num # NoneInt /\ end_num # NoneInt
        THEN <<start_num, end_num>>
        ELSE NoneRange

\* a range test that leaves the last block of the range out
_is_chome_in_range_open(chome_num, range_district) ==
    LET chome_range == _extract_chome_range(range_district)
    IN  IF chome_range # NoneRange
        THEN chome_range[1] <= chome_num /\ chome_num < chome_range[2]
        ELSE FALSE

\* AddressResolver._is_chome_in_range
_is_chome_in_range(chome_num, range_district) ==
    LET chome_range == _extract_chome_range(range_district)
    IN  IF chome_range # NoneRange
        THEN chome_range[1] <= chome_num /\ chome_num <= chome_range[2]
        ELSE FALSE

\* the body of the loop of _matches_specific_address for one stored district
MatchesLot(input_district, stored_district) ==
    LET m == FirstLot(stored_district, AnyDigit)
        specific_number == SubSeq(stored_district, m + 1,
                                  RunEnd(stored_district, m + 1, AnyDigit))
        specific_number_half == full_to_half(specific_number)
    IN  /\ m # 0
        /\ \/ Contains(input_district, specific_number)
           \/ Contains(input_district, specific_number_half)
           \/ Contains(input_district, specific_number \o <<"ban", "chi">>)
           \/ Contains(input_district, specific_number_half \o <<"ban", "chi">>)

\* a lot test that never recognises the lot
_matches_specific_address_never(input_district, specific_entries) == FALSE

\* AddressResolver._matches_specific_address
_matches_specific_address(input_district, specific_entries) ==
    \E i \in 1..Len(specific_entries) :
        MatchesLot(input_district, specific_entries[i].district)

\* the first position of seq that satisfies the test, as a set of positions
\* given: for loops that return at the first hit
FirstHit(hits) == FirstIdx(hits)

\* a loop that keeps the last variant found in city_districts, not the first
ExactVariant_last(cd, district_variants) ==
    LastIdx({i \in 1..Len(district_variants) : HasKey(cd, district_variants[i])})

\* the loop "for variant in district_variants: if variant in city_districts"
ExactVariant(cd, district_variants) ==
    FirstHit({i \in 1..Len(district_variants) : HasKey(cd, district_variants[i])})

\* re.sub(r'[0-9 full-width kanji]+chome.*$', '', district).strip()
BaseOfInput(district) ==
    LET i == FirstChome(district, AnyDigit \cup KanjiNum)
    IN  Strip(IF i = 0 THEN district ELSE Before(district, i))

\* re.sub(r'LP.*?RP.*$', '', stored_district).strip()
BaseOfStored(stored_district) ==
    LET i == FirstOf(stored_district, {"LP"})
        j == IF i = 0 THEN 0 ELSE FirstOfAfter(stored_district, {"RP"}, i)
    IN  Strip(IF j = 0 THEN stored_district ELSE Before(stored_district, i))

\* the condition under which the range loop of _exact_match returns an entry
RangeHit(input_chome_num, base_district, stored_district) ==
    /\ _is_chome_in_range(input_chome_num, stored_district)
    /\ _convert_kanji_numbers(base_district)
           = _convert_kanji_numbers(BaseOfStored(stored_district))

\* the chome range search of _exact_match
ChomeRangeSearch(cd, district) ==
    LET input_chome_num == _extract_chome_number(district)
        base_district == BaseOfInput(district)
        hit == FirstHit({i \in 1..Len(cd) :
                            RangeHit(input_chome_num, base_district, cd[i].district)})
    IN  IF input_chome_num = NoneInt THEN NoneZip
        ELSE IF hit = 0 THEN NoneZip
        ELSE cd[hit].zipcode

\* the try block of _exact_match: [exc, val]
exact_match_try(index, address) ==
    LET parsed == parse_address(address)
        cd == city_districts(index, parsed.prefecture, parsed.city)
        district_variants == generate_district_variants(parsed.district)
        hit == ExactVariant(cd, district_variants)
    IN  IF parsed.exc # "none" THEN [exc |-> parsed.exc, val |-> NoneZip]
        ELSE IF ~HasPrefecture(index, parsed.prefecture)
                \/ ~HasCity(index, parsed.prefecture, parsed.city)
        THEN [exc |-> "none", val |-> NoneZip]
        ELSE IF hit # 0
        THEN [exc |-> "none", val |-> Lookup(cd, district_variants[hit])]
        ELSE [exc |-> "none", val |-> ChomeRangeSearch(cd, parsed.district)]

\* try: ... except CLASSES: return None
Except(outcome, classes) ==
    IF outcome.exc \in classes THEN [exc |-> "none", val |-> NoneZip] ELSE outcome

\* AddressResolver._exact_match
_exact_match(index, address) ==
    Except(exact_match_try(index, address), {"KeyError", "ValueError"})

\* "if '(' in stored_district and 'banchi)' in stored_district"
IsSpecificEntry(stored_district) ==
    Contains(stored_district, <<"LP">>) /\ Contains(stored_district, <<"ban", "chi", "RP">>)
IsOthersEntry(stored_district) ==
    ~IsSpecificEntry(stored_district) /\ Contains(stored_district, Others)

\* the prefix match of _fallback_search for one variant: the code it
\* returns given the non-empty matching_candidates
PrefixMatch(district, matching_candidates) ==
    LET specific_entries == SelectSeq(matching_candidates,
                                      LAMBDA e : IsSpecificEntry(e.district))
        others_entries == SelectSeq(matching_candidates,
                                    LAMBDA e : IsOthersEntry(e.district))
    IN  IF specific_entries # <<>> /\ district # <<>>
           /\ _matches_specific_address(district, specific_entries)
        THEN specific_entries[1].zipcode
        ELSE IF specific_entries # <<>> /\ district # <<>> /\ others_entries # <<>>
        THEN others_entries[1].zipcode
        ELSE matching_candidates[1].zipcode

\* a loop body that tries the reverse match before the substring match
FallbackVariant_reverse_first(cd, district, variant) ==
    LET matching_candidates == SelectSeq(cd, LAMBDA e : StartsWith(e.district, variant))
        sub == FirstHit({i \in 1..Len(cd) : Contains(cd[i].district, variant)})
        rev == FirstHit({i \in 1..Len(cd) : StartsWith(variant, cd[i].district)})
    IN  IF matching_candidates # <<>> THEN PrefixMatch(district, matching_candidates)
        ELSE IF rev # 0 THEN cd[rev].zipcode
        ELSE IF sub # 0 THEN cd[sub].zipcode
        ELSE NoneZip

\* the body of the loop of _fallback_search for one variant: the code it
\* returns, NoneZip when the loop goes on to the next variant
FallbackVariant(cd, district, variant) ==
    LET matching_candidates == SelectSeq(cd, LAMBDA e : StartsWith(e.district, variant))
        sub == FirstHit({i \in 1..Len(cd) : Contains(cd[i].district, variant)})
        rev == FirstHit({i \in 1..Len(cd) : StartsWith(variant, cd[i].district)})
    IN  IF matching_candidates # <<>> THEN PrefixMatch(district, matching_candidates)
        ELSE IF sub # 0 THEN cd[sub].zipcode
        ELSE IF rev # 0 THEN cd[rev].zipcode
        ELSE NoneZip

\* the loop "for variant in district_variants" of _fallback_search from i on
RECURSIVE FallbackLoop(_, _, _, _)
FallbackLoop(cd, district, district_variants, i) ==
    IF i > Len(district_variants) THEN NoneZip
    ELSE LET r == FallbackVariant(cd, district, district_variants[i])
         IN  IF r # NoneZip THEN r
             ELSE FallbackLoop(cd, district, district_variants, i + 1)

\* a try block that searches the keys of every city
fallback_search_try_every_city(index, address) ==
    LET parsed == parse_address(address)
    IN  IF parsed.exc # "none" THEN [exc |-> parsed.exc, val |-> NoneZip]
        ELSE [exc |-> "none",
              val |-> FallbackLoop(index, parsed.district,
                                   generate_district_variants(parsed.district), 1)]

\* the try block of _fallback_search
fallback_search_try(index, address) ==
    LET parsed == parse_address(address)
        cd == city_districts(index, parsed.prefecture, parsed.city)
    IN  IF parsed.exc # "none" THEN [exc |-> parsed.exc, val |-> NoneZip]
        ELSE IF ~HasPrefecture(index, parsed.prefecture) THEN [exc |-> "none", val |-> NoneZip]
        ELSE IF ~HasCity(index, parsed.prefecture, parsed.city)
        THEN [exc |-> "none", val |-> NoneZip]
        ELSE [exc |-> "none",
              val |-> FallbackLoop(cd, parsed.district,
                                   generate_district_variants(parsed.district), 1)]

\* a fallback search without its except clause
_fallback_search_uncaught(index, address) == fallback_search_try(index, address)

\* AddressResolver._fallback_search
_fallback_search(index, address) ==
    Except(fallback_search_try(index, address), {"ValueError"})

\* the generic labels with the first two in the other order
generic_patterns_reordered == <<
    <<"so", "no", "ta">>,
    <<"i", "ka", "ni", "kei", "sai", "ga", "na", "yi", "ba", "ai">>,
    <<"gai", "tou", "chi", "iki", "na", "si">> >>

\* generic_patterns
generic_patterns == <<
    <<"i", "ka", "ni", "kei", "sai", "ga", "na", "yi", "ba", "ai">>,
    <<"so", "no", "ta">>,
    <<"gai", "tou", "chi", "iki", "na", "si">> >>

\* the try block of _generic_fallback_search
generic_fallback_search_try(index, address) ==
    LET parsed == parse_address(address)
        cd == city_districts(index, parsed.prefecture, parsed.city)
        hit == FirstHit({i \in 1..Len(generic_patterns) : HasKey(cd, generic_patterns[i])})
    IN  IF parsed.exc # "none" THEN [exc |-> parsed.exc, val |-> NoneZip]
        ELSE IF ~HasPrefecture(index, parsed.prefecture) THEN [exc |-> "none", val |-> NoneZip]
        ELSE IF ~HasCity(index, parsed.prefecture, parsed.city)
        THEN [exc |-> "none", val |-> NoneZip]
        ELSE IF hit # 0 THEN [exc |-> "none", val |-> Lookup(cd, generic_patterns[hit])]
        ELSE [exc |-> "none", val |-> NoneZip]

\* AddressResolver._generic_fallback_search
_generic_fallback_search(index, address) ==
    Except(generic_fallback_search_try(index, address), {"ValueError"})

\* ------------------------------------------------------------------------
\* Registries and addresses of the model
\* ------------------------------------------------------------------------

Tokyo == <<"higashi", "kyo", "to">>
Minato == <<"minato", "ku">>
Hokkaido == <<"kita", "kai", "dou">>
SapporoChuo == <<"sap", "poro", "shi", "chuu", "ou", "ku">>
Kyoto == <<"kyo", "to", "fu">>
KyotoKita == <<"kyo", "to", "shi", "kita", "ku">>
Niigata == <<"shin", "gata", "ken">>
Nagaoka == <<"naga", "oka", "shi">>
Roppongi == <<"k6", "hon", "gi">>
Kita4Nishi == <<"kita", "k4", "jou", "nishi">>
Kita11Nishi == <<"kita", "k10", "k1", "jou", "nishi">>
Wakigawa == <<"waki", "kawa", "shin", "den", "machi">>
Murasakino == <<"murasaki", "ya">>

\* the postal codes of the model's registries
Zips == {"1060032", "0600004", "0640824"}

Row(z, p, c, d) ==
    [nfields |-> MinFields, zipcode |-> z, prefecture |-> p, city |-> c, district |-> d]

\* the registry rows the model's registries are made of, one pool a region
TokyoRows == {
    Row("1060032", Tokyo, Minato, Roppongi),
    Row("0600004", Tokyo, Minato, Roppongi \o <<"k1">> \o Chome),
    Row("0640824", Tokyo, Minato, generic_patterns[1]),
    Row("0600004", Tokyo, Minato, generic_patterns[2]),
    Row("1060032", Tokyo, Minato, generic_patterns[3]) }
SapporoRows == {
    Row("0600004", Hokkaido, SapporoChuo,
        Kita4Nishi \o <<"LP", "F1", "TILDE", "F1", "F9">> \o Chome \o <<"RP">>),
    Row("0640824", Hokkaido, SapporoChuo,
        Kita4Nishi \o <<"LP", "F2", "F0", "TILDE", "F3", "F0">> \o Chome \o <<"RP">>),
    Row("1060032", Hokkaido, SapporoChuo, Kita11Nishi) }
NiigataRows == {
    Row("0600004", Niigata, Nagaoka, Wakigawa \o <<"LP", "F9", "F7", "F0", "ban", "chi", "RP">>),
    Row("0640824", Niigata, Nagaoka, Wakigawa \o Others),
    Row("1060032", Kyoto, KyotoKita, Murasakino) }
RowPools == {TokyoRows, SapporoRows, NiigataRows}

\* the longest registry of the model
MaxRows == 2

SeqsUpTo(S, n) == UNION {[1..k -> S] : k \in 0..n}
Registries == UNION {SeqsUpTo(pool, MaxRows) : pool \in RowPools}

\* what follows the area name in the model's addresses
Suffixes == {
    <<>>,
    <<"1">> \o Chome,
    <<"F5">> \o Chome,
    <<"k2", "k10", "k2">> \o Chome,
    <<"3", "1">> \o Chome,
    <<"9", "7", "0", "ban", "chi">>,
    <<"9", "7", "0", "1">>,
    <<"minami", "wari", "F2", "MINUS", "F1">>,
    <<"1", "aza", "-", "2">>,
    <<"F1", "chou", "me", "F2", "MINUS", "F3", "HI", "RU", "ZU">> }

\* addresses that belong to no registry row
OtherAddresses == {
    <<>>,
    <<"SP">>,
    <<"ISP", "SP">>,
    <<"BI", "RU">>,
    <<"higashi", "nishi", "minami", "kita">>,
    Kyoto,
    Tokyo \o Minato,
    <<"SP">> \o Tokyo \o Minato \o Roppongi \o <<"SP">> }

\* the addresses asked of a resolver built from rows: the rows' own
\* addresses, with and without what the registry puts in parentheses, each
\* followed by a suffix
Addresses(rows) ==
    OtherAddresses
    \cup {rows[i].prefecture \o rows[i].city \o BaseOfStored(rows[i].district) \o suf :
             i \in 1..Len(rows), suf \in Suffixes}
    \cup {rows[i].prefecture \o rows[i].city \o rows[i].district : i \in 1..Len(rows)}

\* ------------------------------------------------------------------------
\* State
\* ------------------------------------------------------------------------

VARIABLES
    rows,        \* the registry file read at construction
    index,       \* AddressResolver.index
    pc,          \* where the current call stands
    caller,      \* who called resolve: "direct" or "api"
    address,     \* the argument of the current call
    normalized,  \* resolve's local variable
    ran,         \* the phases resolve has run, with what each returned
    outcome,     \* what resolve or normalize ended with: [exc, val], val a
                 \* postal code (resolve) or a str (normalize)
    http         \* the status code the endpoint answered with, 0 before

vars == <<rows, index, pc, caller, address, normalized, ran, outcome, http>>

NoOutcome == [exc |-> "none", val |-> NoneZip]

Idle ==
    /\ pc = "idle" /\ caller = "none" /\ address = <<>> /\ normalized = <<>>
    /\ ran = <<>> /\ outcome = NoOutcome /\ http = 0

\* AddressResolver.__init__
Init ==
    /\ rows \in Registries
    /\ index = _build_index(rows)
    /\ Idle

\* ------------------------------------------------------------------------
\* AddressResolver.resolve, statement by statement
\* ------------------------------------------------------------------------

\* a direct call of resolve(a)
CallResolve ==
    /\ pc = "idle"
    /\ \E a \in Addresses(rows) : address' = a
    /\ pc' = "resolve"
    /\ caller' = "direct"
    /\ UNCHANGED <<rows, index, normalized, ran, outcome, http>>

\* resolve, lines 28-32: the blank check and the call of normalize
ResolveEnter ==
    /\ pc = "resolve"
    /\ LET n == normalize(address)
       IN  IF IsBlank(address)
           THEN /\ outcome' = [exc |-> "ValueError", val |-> NoneZip]
                /\ pc' = "done"
                /\ UNCHANGED normalized
           ELSE IF n.exc # "none"
           THEN /\ outcome' = [exc |-> n.exc, val |-> NoneZip]
                /\ pc' = "done"
                /\ UNCHANGED normalized
           ELSE /\ normalized' = n.val
                /\ pc' = "phase1"
                /\ UNCHANGED outcome
    /\ UNCHANGED <<rows, index, caller, address, ran, http>>

\* one phase of resolve: the call of the phase function and the "if zipcode:
\* return zipcode" after it (the last phase returns whatever it got)
Phase(name, r, next) ==
    /\ pc = name
    /\ ran' = Append(ran, [phase |-> name, val |-> r.val])
    /\ IF r.exc # "none"
       THEN outcome' = [exc |-> r.exc, val |-> NoneZip] /\ pc' = "done"
       ELSE IF r.val # NoneZip \/ next = "done"
       THEN outcome' = [exc |-> "none", val |-> r.val] /\ pc' = "done"
       ELSE pc' = next /\ UNCHANGED outcome
    /\ UNCHANGED <<rows, index, caller, address, normalized, http>>

\* a resolve that runs the generic fallback where the fallback search belongs
ResolvePhase2_generic ==
    Phase("phase2", _generic_fallback_search(index, normalized), "phase3")

\* resolve, lines 35-37
ResolvePhase1 == Phase("phase1", _exact_match(index, normalized), "phase2")
\* resolve, lines 40-42
ResolvePhase2 == Phase("phase2", _fallback_search(index, normalized), "phase3")
\* resolve, line 45
ResolvePhase3 == Phase("phase3", _generic_fallback_search(index, normalized), "done")

\* the direct caller of resolve or normalize has its answer
Return ==
    /\ \/ pc = "done"
       \/ pc = "renormalized"
       \/ pc = "normalized" /\ outcome.exc # "none"
    /\ caller = "direct"
    /\ pc' = "idle" /\ caller' = "none" /\ address' = <<>> /\ normalized' = <<>>
    /\ ran' = <<>> /\ outcome' = NoOutcome
    /\ UNCHANGED <<rows, index, http>>

\* ------------------------------------------------------------------------
\* AddressNormalizer.normalize called directly, and again on its own result
\* ------------------------------------------------------------------------

CallNormalize ==
    /\ pc = "idle"
    /\ \E a \in Addresses(rows) :
          /\ address' = a
          /\ outcome' = normalize(a)
    /\ pc' = "normalized"
    /\ caller' = "direct"
    /\ UNCHANGED <<rows, index, normalized, ran, http>>

\* normalize(normalize(address))
NormalizeAgain ==
    /\ pc = "normalized"
    /\ outcome.exc = "none"
    /\ normalized' = outcome.val
    /\ outcome' = normalize(outcome.val)
    /\ pc' = "renormalized"
    /\ UNCHANGED <<rows, index, caller, address, ran, http>>

\* ------------------------------------------------------------------------
\* main.py: POST /address2zipcode
\* ------------------------------------------------------------------------

\* AddressRequest.address_must_not_be_empty rejects the request (pydantic
\* answers 422) or hands the stripped address to address_to_zipcode, which
\* calls resolver.resolve
ApiRequest ==
    /\ pc = "idle"
    /\ \E a \in Addresses(rows) :
          IF IsBlank(a)
          THEN /\ http' = 422
               /\ pc' = "responded"
               /\ address' = a
          ELSE /\ address' = Strip(a)
               /\ pc' = "resolve"
               /\ UNCHANGED http
    /\ caller' = "api"
    /\ UNCHANGED <<rows, index, normalized, ran, outcome>>

\* what the try block of address_to_zipcode raises once resolve has ended
\* with res, "none" when it returns the response
TryBlock(res, request_address) ==
    LET normalized_address == normalize(request_address)
    IN  IF res.exc # "none" THEN res.exc
        ELSE IF res.val = NoneZip THEN "HTTPException"
        ELSE IF normalized_address.exc # "none" THEN normalized_address.exc
        ELSE parse_address(normalized_address.val).exc

\* the except clauses of address_to_zipcode: the status code answered
StatusOf(raised) ==
    IF raised = "none" THEN 200
    ELSE IF raised = "ValueError" THEN 400
    ELSE 500

\* address_to_zipcode, lines 97-121
ApiRespond ==
    /\ pc = "done"
    /\ caller = "api"
    /\ http' = StatusOf(TryBlock(outcome, address))
    /\ pc' = "responded"
    /\ UNCHANGED <<rows, index, caller, address, normalized, ran, outcome>>

\* the response is sent
ApiDone ==
    /\ pc = "responded"
    /\ pc' = "idle" /\ caller' = "none" /\ address' = <<>> /\ normalized' = <<>>
    /\ ran' = <<>> /\ outcome' = NoOutcome /\ http' = 0
    /\ UNCHANGED <<rows, index>>

Next ==
    \/ CallResolve
    \/ ResolveEnter
    \/ ResolvePhase1
    \/ ResolvePhase2
    \/ ResolvePhase3
    \/ Return
    \/ CallNormalize
    \/ NormalizeAgain
    \/ ApiRequest
    \/ ApiRespond
    \/ ApiDone

Spec == Init /\ [][Next]_vars

\* ------------------------------------------------------------------------
\* resolve asked for every block of one area, in every script
\* ------------------------------------------------------------------------

\* the largest block number asked for
MaxChome == 31

\* n written in full-width digits
FullOf(n) == [i \in 1..Len(StrOf(n)) |-> FullDigits[PosOf(HalfDigits, StrOf(n)[i])]]
\* n written in kanji numerals, 1 <= n <= 99
KanjiOf(n) ==
    (IF n >= 20 THEN <<KanjiDigits[n \div 10]>> ELSE <<>>)
    \o (IF n >= 10 THEN <<"k10">> ELSE <<>>)
    \o (IF n % 10 # 0 THEN <<KanjiDigits[n % 10]>> ELSE <<>>)
\* the three ways of writing block n
BlockWords(n) == {StrOf(n), FullOf(n), KanjiOf(n)}

ChomeAddress(w) == Hokkaido \o SapporoChuo \o Kita4Nishi \o w \o Chome
ChomeAddresses == {ChomeAddress(w) : w \in UNION {BlockWords(n) : n \in 1..MaxChome}}

InitChome ==
    /\ rows \in SeqsUpTo(SapporoRows, MaxRows)
    /\ index = _build_index(rows)
    /\ Idle

\* a direct call of resolve for a block of Kita 4-jo Nishi
CallResolveChome ==
    /\ pc = "idle"
    /\ \E a \in ChomeAddresses : address' = a
    /\ pc' = "resolve"
    /\ caller' = "direct"
    /\ UNCHANGED <<rows, index, normalized, ran, outcome, http>>

NextChome ==
    \/ CallResolveChome
    \/ ResolveEnter
    \/ ResolvePhase1
    \/ ResolvePhase2
    \/ ResolvePhase3
    \/ Return

SpecChome == InitChome /\ [][NextChome]_vars

\* ------------------------------------------------------------------------
\* Properties of resolve
\* ------------------------------------------------------------------------

\* the call in progress is a call of resolve that passed the blank check
\* and has returned
Resolved == pc = "done" /\ outcome.exc = "none" /\ ran # <<>>

\* what the three phase functions return for the address of the call
PhaseNames == <<"phase1", "phase2", "phase3">>
PhaseValue(i) ==
    LET a == normalize_body(address)
    IN  CASE i = 1 -> _exact_match(index, a).val
          [] i = 2 -> _fallback_search(index, a).val
          [] i = 3 -> _generic_fallback_search(index, a).val

\* the segmentation of the address of the call
Parsed == parse_address(normalize_body(address))
\* the districts of the city of the address of the call
ParsedCity == city_districts(index, Parsed.prefecture, Parsed.city)
ParsedVariants == generate_district_variants(Parsed.district)

\* C1: for a non-blank address resolve returns the result of the first phase,
\* in the order 1, 2, 3, that yields a postal code; a phase is consulted
\* only when every earlier phase yielded none, each phase consulted is the
\* phase function of its rank applied to the normalized address, and
\* resolve returns not-found exactly when all three phases yield none.
C1_FirstSuccessfulPhase ==
    ran # <<>> =>
    LET value == [i \in 1..3 |-> PhaseValue(i)]
    IN  /\ \A i \in 1..Len(ran) :
              /\ i <= 3
              /\ ran[i] = [phase |-> PhaseNames[i], val |-> value[i]]
              /\ \A j \in 1..(i - 1) : ran[j].val = NoneZip
        /\ pc = "done" =>
              /\ ~IsBlank(address)
              /\ outcome.exc = "none"
              /\ outcome.val = (IF value[1] # NoneZip THEN value[1]
                                ELSE IF value[2] # NoneZip THEN value[2]
                                ELSE value[3])
              /\ ran[Len(ran)].val = outcome.val
              /\ (outcome.val = NoneZip) <=> (\A i \in 1..3 : value[i] = NoneZip)
              /\ (outcome.val = NoneZip) => Len(ran) = 3

\* resolve answered from its third phase after the first two yielded none
C1_Witness ==
    /\ Resolved
    /\ Len(ran) = 3
    /\ ran[1].val = NoneZip /\ ran[2].val = NoneZip
    /\ outcome.val \in Zips

\* C2: Phase 1 returns the code of the first district variant, in variant
\* order, that is verbatim a key of the city; in particular an address
\* Prefecture+City+Base+'N chome' resolves to the code stored for Base when
\* Base is a key and neither 'BaseN chome' nor its kanji-numeral form is.
C2_FirstVariantKey ==
    Resolved =>
    LET parsed == Parsed
        cd == city_districts(index, parsed.prefecture, parsed.city)
        variants == generate_district_variants(parsed.district)
        keys == {i \in 1..Len(variants) : HasKey(cd, variants[i])}
    IN  (parsed.exc = "none" /\ cd # <<>>) =>
        /\ \A i \in keys :
              (\A j \in keys : i <= j)
              => /\ ran[1].val = Lookup(cd, variants[i])
                 /\ outcome.val = Lookup(cd, variants[i])
        /\ \A e \in Range(cd) : \A n \in 1..MaxKanjiNumber :
              (/\ parsed.district = e.district \o StrOf(n) \o Chome
               /\ ~HasKey(cd, parsed.district)
               /\ ~HasKey(cd, _convert_arabic_to_kanji(parsed.district)))
              => outcome.val = e.zipcode

\* 'Roppongi 1-chome' is asked of a registry that knows Roppongi and, stored
\* after it under another code, 'Roppongi i-chome' in kanji: the second
\* variant is the first that is a key
C2_Witness ==
    /\ Resolved
    /\ address = Tokyo \o Minato \o Roppongi \o <<"1">> \o Chome
    /\ HasKey(ParsedCity, Roppongi)
    /\ HasKey(ParsedCity, Roppongi \o <<"k1">> \o Chome)
    /\ Lookup(ParsedCity, Roppongi) # outcome.val
    /\ outcome.val = Lookup(ParsedCity, Roppongi \o <<"k1">> \o Chome)

\* C3 (as stated): for every index entry (p, c, d) whose district holds no
\* parenthesis, resolve(p + c + d) returns the code stored for the entry.
C3_StoredKeyResolves ==
    \A i \in 1..Len(index) :
        (/\ pc = "done"
         /\ ran # <<>> \/ outcome.exc # "none"
         /\ ~Contains(index[i].district, <<"LP">>)
         /\ ~Contains(index[i].district, <<"lp">>)
         /\ address = index[i].prefecture \o index[i].city \o index[i].district)
        => outcome = [exc |-> "none", val |-> index[i].zipcode]
\* the two range keys of Kita 4-jo Nishi
KitaLow == Kita4Nishi \o <<"LP", "F1", "TILDE", "F1", "F9">> \o Chome \o <<"RP">>
KitaHigh == Kita4Nishi \o <<"LP", "F2", "F0", "TILDE", "F3", "F0">> \o Chome \o <<"RP">>

\* C4: when no district variant is verbatim a key and the input district
\* carries block number n, Phase 1 returns the code of the first stored key
\* of the city that encodes a range start..end with start <= n <= end and
\* whose area name before the parenthesis equals the base district name of
\* the input once kanji numerals are canonicalized on both sides, and none
\* when there is no such key; with the keys 'X(1-19 chome)' -> A and
\* 'X(20-30 chome)' -> B, blocks 1..19 resolve to A and blocks 20..30 to B
\* in half-width, full-width and kanji digits.
C4_ChomeRange ==
    Resolved =>
    LET parsed == Parsed
        cd == city_districts(index, parsed.prefecture, parsed.city)
        variants == generate_district_variants(parsed.district)
        n == _extract_chome_number(parsed.district)
        base == _convert_kanji_numbers(BaseOfInput(parsed.district))
        fits == {i \in 1..Len(cd) :
                    LET r == _extract_chome_range(cd[i].district)
                    IN  /\ r # NoneRange
                        /\ r[1] <= n /\ n <= r[2]
                        /\ _convert_kanji_numbers(BaseOfStored(cd[i].district)) = base}
    IN  /\ (/\ parsed.exc = "none" /\ cd # <<>> /\ n # NoneInt
            /\ \A i \in 1..Len(variants) : ~HasKey(cd, variants[i]))
           => /\ fits # {} => \E i \in fits : /\ \A j \in fits : i <= j
                                              /\ ran[1].val = cd[i].zipcode
                                              /\ outcome.val = cd[i].zipcode
              /\ fits = {} => ran[1].val = NoneZip
        /\ (HasKey(cd, KitaLow) /\ HasKey(cd, KitaHigh)) =>
              \A b \in 1..30 :
                  address \in {ChomeAddress(w) : w \in BlockWords(b)}
                  => outcome.val = Lookup(cd, IF b <= 19 THEN KitaLow ELSE KitaHigh)

\* block 30, written in kanji, resolved through the second range key
C4_Witness ==
    /\ Resolved
    /\ Len(index) = 2
    /\ index[1].district = KitaLow /\ index[2].district = KitaHigh
    /\ address = ChomeAddress(<<"k3", "k10">>)
    /\ Len(ran) = 1
    /\ outcome.val = "0640824"

\* C5 (as stated): when a city holds a specific-lot key 'X(n banchi)' and an
\* other-marker key 'X(sonota)' with different codes, an input of the city
\* whose district ends with 'n banchi' resolves to the specific-lot code and
\* every other input whose district starts with X resolves to the code of
\* 'X(sonota)'.
C5_LotOrOther ==
    Resolved =>
    LET parsed == Parsed
        cd == city_districts(index, parsed.prefecture, parsed.city)
    IN  \A i, j \in 1..Len(cd) :
        LET X == BaseOfStored(cd[j].district)
            lot == cd[i].district
            num == SubSeq(lot, Len(X) + 2, Len(lot) - 3)
        IN  (/\ parsed.exc = "none"
             /\ cd[j].district = X \o Others
             /\ lot = X \o <<"LP">> \o num \o <<"ban", "chi", "RP">>
             /\ num # <<>> /\ \A k \in 1..Len(num) : num[k] \in AnyDigit
             /\ cd[i].zipcode # cd[j].zipcode
             /\ StartsWith(parsed.district, X))
            => outcome.val =
                  (IF EndsWith(parsed.district, full_to_half(num) \o <<"ban", "chi">>)
                   THEN cd[i].zipcode ELSE cd[j].zipcode)

\* C5 (amended): when the only keys of a city are 'X(n banchi)' and
\* 'X(sonota)', with different codes, and X holds no digit, no parenthesis
\* and no town marker (machi) but its last character, then every input of
\* the city whose normalized district starts with X and holds no parenthesis
\* resolves to the specific-lot code when the district contains the digits
\* of n anywhere (so also when it ends with 'n banchi') and to the code of
\* 'X(sonota)' otherwise.
C5_LotDigitsOrOther ==
    Resolved =>
    LET parsed == Parsed
        cd == city_districts(index, parsed.prefecture, parsed.city)
    IN  \A i, j \in 1..Len(cd) :
        LET X == BaseOfStored(cd[j].district)
            lot == cd[i].district
            num == SubSeq(lot, Len(X) + 2, Len(lot) - 3)
            d == parsed.district
        IN  (/\ parsed.exc = "none"
             /\ Len(cd) = 2
             /\ cd[j].district = X \o Others
             /\ lot = X \o <<"LP">> \o num \o <<"ban", "chi", "RP">>
             /\ num # <<>> /\ \A k \in 1..Len(num) : num[k] \in AnyDigit
             /\ cd[i].zipcode # cd[j].zipcode
             /\ \A k \in 1..Len(X) : X[k] \notin AnyDigit \cup {"LP", "RP", "lp", "rp"}
             /\ FirstOf(X, {"machi"}) = Len(X)
             /\ StartsWith(d, X)
             /\ \A k \in 1..Len(d) : d[k] \notin {"LP", "RP", "lp", "rp"})
            => outcome.val =
                  (IF Contains(d, num) \/ Contains(d, full_to_half(num))
                   THEN cd[i].zipcode ELSE cd[j].zipcode)

\* an address that merely contains the digits of the lot gets the lot's code
C5_Witness ==
    /\ Resolved
    /\ Len(index) = 2
    /\ address = Niigata \o Nagaoka \o Wakigawa \o <<"9", "7", "0", "1">>
    /\ HasKey(ParsedCity, Wakigawa \o Others)
    /\ HasKey(ParsedCity, Wakigawa \o <<"LP", "F9", "F7", "F0", "ban", "chi", "RP">>)
    /\ Len(ran) = 2
    /\ outcome.val = "0600004"

\* C6: when Phases 1 and 2 yield nothing, resolve returns the code of the
\* first of the literal district keys 'ika ni keisai ga nai baai', 'sonota',
\* 'gaito chiiki nashi', in that order, that the parsed city holds, and
\* not-found when the city holds none of them or the prefecture or the city
\* is not in the index.
C6_GenericPriority ==
    (Resolved /\ Len(ran) = 3) =>
    LET parsed == Parsed
        cd == city_districts(index, parsed.prefecture, parsed.city)
        NotListed == <<"i", "ka", "ni", "kei", "sai", "ga", "na", "yi", "ba", "ai">>
        Sonota == <<"so", "no", "ta">>
        NoArea == <<"gai", "tou", "chi", "iki", "na", "si">>
    IN  outcome.val =
           (IF parsed.exc # "none" \/ cd = <<>> THEN NoneZip
            ELSE IF HasKey(cd, NotListed) THEN Lookup(cd, NotListed)
            ELSE IF HasKey(cd, Sonota) THEN Lookup(cd, Sonota)
            ELSE IF HasKey(cd, NoArea) THEN Lookup(cd, NoArea)
            ELSE NoneZip)

\* 'sonota' was stored first and 'ika ni keisai ga nai baai' after it: the
\* third phase answers with the code of the latter
C6_Witness ==
    /\ Resolved
    /\ Len(ran) = 3
    /\ Len(index) = 2
    /\ index[1].district = <<"so", "no", "ta">>
    /\ index[2].district = <<"i", "ka", "ni", "kei", "sai", "ga", "na", "yi", "ba", "ai">>
    /\ index[1].zipcode # index[2].zipcode
    /\ outcome.val = index[2].zipcode
\* ------------------------------------------------------------------------
\* Properties of the error paths, of the endpoint and of normalize
\* ------------------------------------------------------------------------

\* a str that is empty or holds whitespace only
Blank(a) == \A i \in 1..Len(a) : a[i] \in {"SP", "ISP"}

\* C7: resolve and normalize fail with ValueError for every empty or
\* whitespace-only input and for no other input; in resolve the failure is
\* raised before any phase has looked at the index.
C7_BlankRaises ==
    /\ pc = "done" =>
          /\ (outcome.exc = "ValueError") <=> Blank(address)
          /\ outcome.exc = "ValueError" => ran = <<>> /\ normalized = <<>>
    /\ pc = "normalized" => ((outcome.exc = "ValueError") <=> Blank(address))
    /\ pc = "renormalized" => ((outcome.exc = "ValueError") <=> Blank(normalized))

\* resolve was called with whitespace only and raised
C7_Witness ==
    /\ pc = "done"
    /\ address = <<"ISP", "SP">>
    /\ outcome.exc = "ValueError"
    /\ ran = <<>>

\* C8: for every non-blank address resolve ends with a postal code or with
\* not-found and never raises; when the normalized address cannot be
\* segmented (no prefecture marker, no city pattern, or nothing left of the
\* address) every phase treats it as no match and resolve ends in not-found.
C8_NeverRaises ==
    /\ pc \in {"phase1", "phase2", "phase3"} => outcome = NoOutcome /\ Len(ran) < 3
    /\ (pc = "done" /\ ~Blank(address)) =>
          /\ outcome.exc = "none"
          /\ outcome.val \in Zips \cup {NoneZip}
          /\ Parsed.exc # "none" =>
                /\ outcome.val = NoneZip
                /\ Len(ran) = 3
                /\ \A i \in 1..3 : ran[i].val = NoneZip

\* normalize left nothing of the address and resolve answered not-found
C8_Witness ==
    /\ pc = "done"
    /\ address = <<"BI", "RU">>
    /\ normalized = <<>>
    /\ Parsed.exc = "ValueError"
    /\ Len(ran) = 3
    /\ outcome = [exc |-> "none", val |-> NoneZip]

\* C9 (as stated): the endpoint answers 404 when resolve returns None and
\* 400 when a ValueError is raised; an absent result is never answered with
\* 500.
C9_AbsentIsNotFound ==
    (pc = "responded" /\ http # 422) =>
        /\ (outcome.exc = "none" /\ outcome.val = NoneZip) => http = 404
        /\ outcome.exc = "ValueError" => http = 400
        /\ (outcome.exc = "none" /\ outcome.val # NoneZip) => http \in {200, 400}

\* C10 (as stated): for every non-blank address x, normalize(normalize(x))
\* succeeds and equals normalize(x).
C10_NormalizeIdempotent ==
    pc = "renormalized" => outcome = [exc |-> "none", val |-> normalized]
\* ------------------------------------------------------------------------
\* The numeral conversions applied to every numeral before a marker
\* ------------------------------------------------------------------------

\* the largest numeral asked for
MaxKanjiWord == 50

\* what stands before and after the numeral and its marker, and what
\* normalize makes of the part before
KanjiContexts == {
    [pre |-> <<>>, post |-> <<>>, out |-> <<>>],
    [pre |-> Tokyo \o Minato \o Roppongi, post |-> <<>>, out |-> Tokyo \o Minato \o Roppongi],
    [pre |-> Hokkaido \o SapporoChuo \o <<"kita">>, post |-> <<"nishi">>,
     out |-> Hokkaido \o SapporoChuo \o <<"kita">>],
    [pre |-> <<"kita", "k2", "jou", "nishi">>, post |-> <<>>,
     out |-> <<"kita", "2", "jou", "nishi">>] }
Markers == {Chome, Jo}

KanjiInput(ctx, n, m) == ctx.pre \o KanjiOf(n) \o m \o ctx.post
ArabicInput(ctx, n, m) == ctx.out \o StrOf(n) \o m \o ctx.post

\* a function that touches no state has returned to its caller
PureCalls == {"normalize", "_convert_arabic_to_kanji", "parse_address",
              "generate_district_variants", "_clean_district_name",
              "_convert_kanji_to_number", "_convert_kanji_to_number_simple",
              "_fallback_search"}
Returned ==
    /\ pc \in PureCalls
    /\ pc' = "idle" /\ caller' = "none" /\ address' = <<>> /\ normalized' = <<>>
    /\ ran' = <<>> /\ outcome' = NoOutcome
    /\ UNCHANGED <<rows, index, http>>

InitNoRows ==
    /\ rows = <<>>
    /\ index = _build_index(rows)
    /\ Idle

\* normalize(a) for a numeral in kanji before a marker
NormalizeKanji ==
    /\ pc = "idle"
    /\ \E ctx \in KanjiContexts, n \in 1..MaxKanjiWord, m \in Markers :
          /\ address' = KanjiInput(ctx, n, m)
          /\ outcome' = normalize(KanjiInput(ctx, n, m))
    /\ pc' = "normalize"
    /\ caller' = "direct"
    /\ UNCHANGED <<rows, index, normalized, ran, http>>

\* _convert_arabic_to_kanji(d) for a numeral in digits before a marker
ConvertArabic ==
    /\ pc = "idle"
    /\ \E ctx \in KanjiContexts, n \in 1..MaxKanjiWord, m \in Markers :
          /\ address' = ArabicInput(ctx, n, m)
          /\ outcome' = [exc |-> "none",
                         val |-> _convert_arabic_to_kanji(ArabicInput(ctx, n, m))]
    /\ pc' = "_convert_arabic_to_kanji"
    /\ caller' = "direct"
    /\ UNCHANGED <<rows, index, normalized, ran, http>>

NextKanji ==
    \/ NormalizeKanji
    \/ ConvertArabic
    \/ Returned

SpecKanji == InitNoRows /\ [][NextKanji]_vars

\* C11: for every N in 1..48 written as a kanji numeral that is the whole
\* run of kanji numerals before chome or jo, normalize replaces the numeral
\* by the decimal digits of N; a kanji numeral above 48 is left as written.
C11_KanjiToDigits ==
    pc = "normalize" =>
    \A ctx \in KanjiContexts, n \in 1..MaxKanjiWord, m \in Markers :
        address = KanjiInput(ctx, n, m) =>
            outcome = [exc |-> "none",
                       val |-> ctx.out
                               \o (IF n <= 48 THEN StrOf(n) ELSE KanjiOf(n))
                               \o m \o ctx.post]

\* 'Kita 2-jo Nishi 48-chome', all in kanji, came out in digits
C11_Witness ==
    /\ pc = "normalize"
    /\ address = <<"kita", "k2", "jou", "nishi", "k4", "k10", "k8">> \o Chome
    /\ outcome.val = <<"kita", "2", "jou", "nishi", "4", "8">> \o Chome

\* C20 (as stated): for every N in 1..48 and marker m of jo and chome,
\* converting str(N)+m to kanji yields the kanji numeral of N followed by m.
C20_ArabicToKanjiInverse ==
    pc = "_convert_arabic_to_kanji" =>
    \A ctx \in KanjiContexts, n \in 1..MaxKanjiNumber, m \in Markers :
        address = ArabicInput(ctx, n, m) =>
            /\ outcome.val = _convert_arabic_to_kanji(ctx.out) \o KanjiOf(n) \o m \o ctx.post
            /\ _convert_kanji_numbers(outcome.val) = address
\* ------------------------------------------------------------------------
\* normalize applied to every short address made of the pieces it looks at
\* ------------------------------------------------------------------------

\* the most pieces an address is made of
MaxPieces == 3

Pieces == {
    <<"hon">>, <<"1">>, <<"F2">>, <<"-">>, <<"MINUS">>, <<"1", "MINUS", "F2">>,
    <<"ban">>, <<"ban", "chi">>, <<"gou">>, Chome, <<"k5">>, <<"BI", "RU">>,
    <<"aza">>, <<"SP">>, <<"FA">>, <<"KE">> }

RECURSIVE Flatten(_)
Flatten(ps) == IF ps = <<>> THEN <<>> ELSE Head(ps) \o Flatten(Tail(ps))

\* addresses of the repository's tests of normalize, and one with digits
\* after chome
TestAddresses == {
    Tokyo \o Minato \o Roppongi \o <<"F5">> \o Chome
        \o <<"F1", "MINUS", "F2", "MINUS", "F3", "HI", "RU", "ZU", "TA", "WA", "LONG">>,
    Tokyo \o Minato \o Roppongi \o <<"F5">> \o Chome \o <<"F1", "F2", "ban", "F3", "gou">>,
    Tokyo \o Minato \o Roppongi \o <<"HI", "RU", "ZU">>,
    <<"SP", "SP">> \o Tokyo \o Minato \o Roppongi \o <<"F5">> \o Chome \o <<"SP", "SP">>,
    Tokyo \o Minato \o Roppongi \o <<"5">> \o Chome \o <<"1", "2">> }

PieceAddresses == {Flatten(ps) : ps \in SeqsUpTo(Pieces, MaxPieces)} \cup TestAddresses

\* normalize(a)
NormalizePieces ==
    /\ pc = "idle"
    /\ \E a \in PieceAddresses :
          /\ address' = a
          /\ outcome' = normalize(a)
    /\ pc' = "normalize"
    /\ caller' = "direct"
    /\ UNCHANGED <<rows, index, normalized, ran, http>>

NextNormalize ==
    \/ NormalizePieces
    \/ Returned

SpecNormalize == InitNoRows /\ [][NextNormalize]_vars

\* t occurs in s with a digit, one of the characters of mid, a digit
DigitMidDigit(s, mid) ==
    \E i \in 1..(Len(s) - 2) :
        s[i] \in AnyDigit /\ s[i + 1] \in mid /\ s[i + 2] \in AnyDigit
\* a digit stands right after chome in s
DigitAfterChome(s) ==
    \E i \in 1..(Len(s) - 2) : IsSubAt(s, Chome, i) /\ s[i + 2] \in AnyDigit
\* s, stripped, ends with a digit and banchi
LotTail(s) ==
    LET t == Strip(s)
    IN  /\ Len(t) >= 3
        /\ SubSeq(t, Len(t) - 1, Len(t)) = <<"ban", "chi">>
        /\ t[Len(t) - 2] \in AnyDigit

\* C12 (as stated): for every non-blank input that does not end with digits
\* and banchi, the output of normalize holds none of the ten building
\* keywords, no digits-hyphen-digits, no digits-ban-digits and no digit
\* right after chome.
C12_CanonicalAddress ==
    (pc = "normalize" /\ ~Blank(address) /\ ~LotTail(address)) =>
        /\ outcome.exc = "none"
        /\ \A k \in 1..Len(BuildingPatterns) : ~Contains(outcome.val, BuildingPatterns[k])
        /\ ~DigitMidDigit(outcome.val, Hyphen)
        /\ ~DigitMidDigit(outcome.val, {"ban"})
        /\ ~DigitAfterChome(outcome.val)

\* C14: for every non-blank input the output of normalize holds no
\* full-width digit and no full-width Latin letter and neither starts nor
\* ends with whitespace; for an input made of full-width digits and letters
\* only, the output is the input with every character replaced by its
\* half-width equivalent.
C14_HalfWidthOnly ==
    (pc = "normalize" /\ ~Blank(address)) =>
    LET FullLetters == {"FA", "Fb"}
        half(c) == CASE c = "FA" -> "A"
                     [] c = "Fb" -> "b"
                     [] OTHER -> HalfDigits[PosOf(FullDigits, c)]
        out == outcome.val
    IN  /\ outcome.exc = "none"
        /\ \A i \in 1..Len(out) : out[i] \notin FullDigit \cup FullLetters
        /\ out # <<>> => out[1] \notin {"SP", "ISP"} /\ out[Len(out)] \notin {"SP", "ISP"}
        /\ (\A i \in 1..Len(address) : address[i] \in FullDigit \cup FullLetters)
           => out = [i \in 1..Len(address) |-> half(address[i])]

\* a full-width digit, letter, digit came out in half width
C14_Witness ==
    /\ pc = "normalize"
    /\ address = <<"F2", "FA", "F2">>
    /\ outcome = [exc |-> "none", val |-> <<"2", "A", "2">>]
\* a with full-width characters in half width and the kanji numerals before
\* chome and jo as digits
Canonical(a) == _convert_kanji_numbers(full_to_half(a))
\* s holds one of the building keywords
HasKeyword(s) == \E k \in 1..Len(BuildingPatterns) : Contains(s, BuildingPatterns[k])
\* s starts with digits-hyphen-digit, with digits-ban-digits that no hyphen
\* and digit follow, or with a building keyword
StartsHouseNumber(s) ==
    /\ s # <<>>
    /\ s[1] \in AnyDigit
    /\ LET e == RunEnd(s, 1, AnyDigit)
       IN  /\ e + 2 <= Len(s)
           /\ s[e + 2] \in AnyDigit
           /\ \/ s[e + 1] \in Hyphen
              \/ /\ s[e + 1] = "ban"
                 /\ LET e2 == RunEnd(s, e + 2, AnyDigit)
                    IN  ~(e2 + 2 <= Len(s) /\ s[e2 + 1] \in Hyphen /\ s[e2 + 2] \in AnyDigit)
StartsKeyword(s) == \E k \in 1..Len(BuildingPatterns) : StartsWith(s, BuildingPatterns[k])
\* s starts with digits-hyphen-digit or digits-ban-digit
StartsHouseNumberLoosely(s) ==
    /\ s # <<>>
    /\ s[1] \in AnyDigit
    /\ LET e == RunEnd(s, 1, AnyDigit)
       IN  e + 2 <= Len(s) /\ s[e + 2] \in AnyDigit /\ s[e + 1] \in Hyphen \cup {"ban"}
\* a digit, chome, digits and a hyphen occur in s
ChomeDigitsHyphen(s) ==
    \E i \in 1..(Len(s) - 4) :
        /\ s[i] \in AnyDigit
        /\ IsSubAt(s, Chome, i + 1)
        /\ s[i + 3] \in AnyDigit
        /\ LET e == RunEnd(s, i + 3, AnyDigit) IN e + 1 <= Len(s) /\ s[e + 1] \in Hyphen
\* s ends with a digit, with a digit and a hyphen, or with a digit and ban
OpenTail(s) ==
    \/ s # <<>> /\ s[Len(s)] \in AnyDigit
    \/ Len(s) >= 2 /\ s[Len(s) - 1] \in AnyDigit /\ s[Len(s)] \in Hyphen \cup {"ban"}

\* C13 (as stated): for an address A \o s where A holds no
\* digit-hyphen-digit, no digits-ban-digits, no building keyword and no
\* aza or KE, s starts with a house number or a building keyword and the
\* address does not end with digits and banchi, normalize returns A in half
\* width.
C13_PrefixInHalfWidth ==
    (pc = "normalize" /\ ~Blank(address) /\ ~LotTail(address)) =>
        \A i \in 1..Len(address) :
            LET A == Before(address, i)
                s == From(address, i)
            IN  ( /\ ~DigitMidDigit(A, Hyphen)
                  /\ ~DigitMidDigit(A, {"ban"})
                  /\ ~HasKeyword(A)
                  /\ \A k \in 1..Len(A) : A[k] \notin {"aza", "KE"}
                  /\ StartsHouseNumberLoosely(s) \/ StartsKeyword(s) )
                => outcome = [exc |-> "none", val |-> full_to_half(A)]

\* C13 (amended): with A2 and s2 the canonical forms of A and s, where A2
\* holds no digit-hyphen-digit, no digits-ban-digits, no
\* digit-chome-digits-hyphen, no building keyword and no aza or KE, s2
\* starts with digits-hyphen-digit, with digits-ban-digits not followed by
\* hyphen and digit, or with a building keyword, A does not end with a
\* digit, digit-hyphen or digit-ban when s2 starts with a digit, and the
\* address does not end with digits and banchi: normalize returns A2
\* stripped of surrounding whitespace.
C13_CanonicalPrefix ==
    (pc = "normalize" /\ ~Blank(address) /\ ~LotTail(address)) =>
        \A i \in 1..Len(address) :
            LET A2 == Canonical(Before(address, i))
                s2 == Canonical(From(address, i))
            IN  ( /\ ~DigitMidDigit(A2, Hyphen)
                  /\ ~DigitMidDigit(A2, {"ban"})
                  /\ ~ChomeDigitsHyphen(A2)
                  /\ ~HasKeyword(A2)
                  /\ \A k \in 1..Len(A2) : A2[k] \notin {"aza", "KE"}
                  /\ \/ StartsHouseNumber(s2) /\ ~OpenTail(A2)
                     \/ StartsKeyword(s2) )
                => outcome = [exc |-> "none", val |-> Strip(A2)]

\* the address of the repository's test: full-width chome, a house number
\* with full-width minus signs and a building name are cut to "...5 chome"
C13_Witness ==
    /\ pc = "normalize"
    /\ address = Tokyo \o Minato \o Roppongi \o <<"F5">> \o Chome
           \o <<"F1", "MINUS", "F2", "MINUS", "F3", "HI", "RU", "ZU", "TA", "WA", "LONG">>
    /\ outcome = [exc |-> "none", val |-> Tokyo \o Minato \o Roppongi \o <<"5">> \o Chome]
\* ------------------------------------------------------------------------
\* parse_address applied to every short string of the characters it tests
\* ------------------------------------------------------------------------

\* the longest string parse_address is applied to
MaxParseLen == 5

ParseChars == {"to", "ken", "shi", "ku", "gun", "machi", "hon", "NL"}

\* parse_address(a)
ParseAddress ==
    /\ pc = "idle"
    /\ \E a \in SeqsUpTo(ParseChars, MaxParseLen) :
          /\ address' = a
          /\ outcome' = parse_address(a)
    /\ pc' = "parse_address"
    /\ caller' = "direct"
    /\ UNCHANGED <<rows, index, normalized, ran, http>>

NextParse ==
    \/ ParseAddress
    \/ Returned

SpecParse == InitNoRows /\ [][NextParse]_vars

\* the ends of the matches of the six city patterns in r, in the order they
\* are tried; 0 for a pattern that does not match
CityMatches(r) ==
    LET at(C) == {e \in 1..Len(r) : r[e] \in C}
        after(C, D) == {e \in at(D) : \E i \in 1..(e - 1) : r[i] \in C}
    IN  << FirstIdx(after({"shi"}, {"ku"})),
           FirstIdx(after({"gun"}, TownMarker)),
           LastIdx(at({"shi"})),
           FirstIdx(at({"ku"})),
           FirstIdx(at(TownMarker)),
           FirstIdx(at({"gun"})) >>
\* what the claim says of parse_address(a) when the patterns see the text
\* line: the whole of a (as stated) or its first line (amended)
SegmentationOf(a, line, rline) ==
    LET p == FirstIdx({i \in 1..Len(line) : line[i] \in PrefectureMarker})
        ends == CityMatches(rline)
        k == FirstIdx({j \in 1..6 : ends[j] # 0})
    IN  IF p = 0 \/ k = 0 THEN ParseError
        ELSE [exc |-> "none",
              prefecture |-> SubSeq(a, 1, p),
              city |-> SubSeq(a, p + 1, p + ends[k]),
              district |-> SubSeq(a, p + ends[k] + 1, Len(a))]

\* C15 (as stated): parse_address(a) fails exactly when a holds no
\* prefecture marker or none of the six city patterns matches the
\* remainder; otherwise the prefecture is the shortest prefix ending in the
\* first marker, the city is the match of the first pattern that matches,
\* the district is the rest and the three parts concatenate to a.
C15_Segmentation ==
    pc = "parse_address" =>
        LET p == FirstIdx({i \in 1..Len(address) : address[i] \in PrefectureMarker})
        IN  outcome = SegmentationOf(address, address, From(address, p + 1))

\* C15 (amended): the same with the prefecture marker looked for before the
\* first line break of a and the city patterns matched within the first
\* line of the remainder.
C15_SegmentationOfFirstLine ==
    pc = "parse_address" =>
        LET line == FirstLine(address)
            p == FirstIdx({i \in 1..Len(line) : line[i] \in PrefectureMarker})
        IN  /\ outcome = SegmentationOf(address, line, FirstLine(From(address, p + 1)))
            /\ outcome.exc = "none" =>
                   outcome.prefecture \o outcome.city \o outcome.district = address

\* "to gun machi shi ku": pattern (a) wins over (b) and (c)
C15_Witness ==
    /\ pc = "parse_address"
    /\ address = <<"to", "gun", "machi", "shi", "ku">>
    /\ outcome = [exc |-> "none", prefecture |-> <<"to">>,
                  city |-> <<"gun", "machi", "shi", "ku">>, district |-> <<>>]
\* ------------------------------------------------------------------------
\* generate_district_variants applied to short district strings
\* ------------------------------------------------------------------------

\* the most pieces a district is made of
MaxDistrictPieces == 4

DistrictPieces == {
    <<"kita">>, <<"1">>, <<"0">>, Jo, Chome, <<"-">>, <<"machi">>, <<"oo", "aza">>, <<"SP">> }

\* districts of the repository's tests of generate_district_variants
TestDistricts == {
    <<"kita", "1", "jou", "nishi", "1">> \o Chome,
    <<"minami", "3", "jou", "higashi", "2">> \o Chome,
    <<"kita", "1">> \o Chome \o <<"2", "-", "3", "-", "4">>,
    <<"kita", "minami", "machi", "3", "-", "2", "2", "-", "1", "6">> }

Districts ==
    {Flatten(ps) : ps \in SeqsUpTo(DistrictPieces, MaxDistrictPieces)} \cup TestDistricts

\* generate_district_variants(d)
GenerateVariants ==
    /\ pc = "idle"
    /\ \E d \in Districts :
          /\ address' = d
          /\ outcome' = [exc |-> "none", val |-> generate_district_variants(d)]
    /\ pc' = "generate_district_variants"
    /\ caller' = "direct"
    /\ UNCHANGED <<rows, index, normalized, ran, http>>

NextVariants ==
    \/ GenerateVariants
    \/ Returned

SpecVariants == InitNoRows /\ [][NextVariants]_vars

NoDuplicates(seq) == \A i, j \in 1..Len(seq) : seq[i] = seq[j] => i = j

C17_PriorityOrder ==
    pc = "generate_district_variants" =>
        LET d == address
            out == outcome.val
            c3 == CutChome(d)
            has3 == c3 # d /\ Strip(c3) # <<>>
            c4 == CutHouseNumber(d)
            \* the candidates of the steps 1, 2, 3, 3a, 4
            cand == << {d},
                       {_convert_arabic_to_kanji(d)} \ {d},
                       IF has3 THEN {c3} ELSE {},
                       IF has3 THEN {_convert_arabic_to_kanji(c3)} \ {c3} ELSE {},
                       IF c4 # d /\ Strip(c4) # <<>> THEN {c4} ELSE {},
                       {Before(d, i + 1) : i \in {j \in 1..(Len(d) - 1) :
                            d[j] = "machi" \/ (j > 1 /\ d[j - 1] = "oo" /\ d[j] = "aza")}} >>
            step(x) == FirstIdx({k \in 1..6 : \E c \in cand[k] : Strip(c) = x})
        IN  /\ \A i \in 1..Len(out) : step(out[i]) # 0
            /\ \A k \in 1..5 : \A c \in cand[k] : Strip(c) # <<>> => InSeq(Strip(c), out)
            /\ \A i, j \in 1..Len(out) : i < j => step(out[i]) < step(out[j])

\* the example of the claim: kita 1 jou nishi 1 chome
C17_Witness ==
    /\ pc = "generate_district_variants"
    /\ address = <<"kita", "1", "jou", "nishi", "1">> \o Chome
    /\ outcome.val = << <<"kita", "1", "jou", "nishi", "1">> \o Chome,
                        <<"kita", "k1", "jou", "nishi", "k1">> \o Chome,
                        <<"kita", "1", "jou", "nishi">>,
                        <<"kita", "k1", "jou", "nishi">> >>
\* ------------------------------------------------------------------------
\* _build_index reading a registry row by row
\* ------------------------------------------------------------------------

\* the most rows the registry file holds
MaxFileRows == 3

\* rows that collide on (Tokyo, Minato, Roppongi), rows that are skipped, a
\* row whose district is a parenthesis only and a row of another city
FileRows == {
    Row("1060032", Tokyo, Minato, Roppongi),
    Row("0600004", Tokyo, Minato, Roppongi),
    Row("0640824", Tokyo, Minato, Roppongi \o <<"LP", "BI", "RU", "RP">>),
    [Row("0600004", Tokyo, Minato, Roppongi) EXCEPT !.nfields = MinFields - 1],
    Row("0640824", Tokyo, Minato, <<"SP">>),
    Row("0600004", Tokyo, Minato, <<>>),
    Row("0640824", Tokyo, Minato, <<"LP", "BI", "RU", "RP">>),
    Row("0600004", Hokkaido, SapporoChuo, Roppongi) }

\* "for row in reader": the loop body for the next row of the file
ReadRow ==
    /\ pc \in {"idle", "_build_index"}
    /\ Len(rows) < MaxFileRows
    /\ \E row \in FileRows :
          /\ rows' = Append(rows, row)
          /\ index' = InsertRow(index, row)
    /\ pc' = "_build_index"
    /\ UNCHANGED <<caller, address, normalized, ran, outcome, http>>

\* the reader is exhausted: "return index"
EndOfFile ==
    /\ pc = "_build_index"
    /\ pc' = "constructed"
    /\ UNCHANGED <<rows, index, caller, address, normalized, ran, outcome, http>>

NextIndex ==
    \/ ReadRow
    \/ EndOfFile

SpecIndex == InitNoRows /\ [][NextIndex]_vars

\* the row is not skipped by the loop
Accepted(row) == row.nfields >= MinFields /\ Strip(row.district) # <<>>
\* the (prefecture, city, cleaned district) a row produces
TripleOf(row) == <<row.prefecture, row.city, _clean_district_name(row.district)>>

\* C18: at every point of the construction the index holds, for each
\* (prefecture, city, cleaned district) some accepted row read so far
\* produces, one entry, whose code is the code of the first such row in
\* file order; it holds nothing else.
C18_FirstRowWins ==
    LET accepted == {i \in 1..Len(rows) : Accepted(rows[i])}
        firstOf(t) == FirstIdx({i \in accepted : TripleOf(rows[i]) = t})
    IN  /\ \A i \in accepted :
              \E k \in 1..Len(index) :
                  <<index[k].prefecture, index[k].city, index[k].district>> = TripleOf(rows[i])
        /\ \A k \in 1..Len(index) :
              LET t == <<index[k].prefecture, index[k].city, index[k].district>>
              IN  /\ firstOf(t) # 0
                  /\ index[k].zipcode = rows[firstOf(t)].zipcode
                  /\ \A j \in 1..Len(index) :
                         <<index[j].prefecture, index[j].city, index[j].district>> = t => j = k

\* three accepted rows with three codes gave (Tokyo, Minato, Roppongi), the
\* last through the removal of its parentheses; the first one's code stays
C18_Witness ==
    /\ pc = "constructed"
    /\ rows = << Row("0600004", Tokyo, Minato, Roppongi),
                 Row("1060032", Tokyo, Minato, Roppongi),
                 Row("0640824", Tokyo, Minato, Roppongi \o <<"LP", "BI", "RU", "RP">>) >>
    /\ index = << [prefecture |-> Tokyo, city |-> Minato, district |-> Roppongi,
                   zipcode |-> "0600004"] >>
\* ------------------------------------------------------------------------
\* Lookups of several requests interleaved on one resolver
\* ------------------------------------------------------------------------
\* In this specification pc, address, normalized, ran and outcome hold one
\* value for each request (the locals of its call of resolve); rows and
\* index are the resolver's, shared by all of them.

\* the number of requests served at the same time
MaxLookups == 2

Threads == 1..MaxLookups

LookupRegistries == {
    << Row("1060032", Tokyo, Minato, Roppongi),
       Row("0640824", Tokyo, Minato, generic_patterns[1]) >>,
    << Row("0600004", Hokkaido, SapporoChuo, KitaLow),
       Row("0640824", Hokkaido, SapporoChuo, KitaHigh) >>,
    << Row("0600004", Niigata, Nagaoka, Wakigawa \o <<"LP", "F9", "F7", "F0", "ban", "chi", "RP">>),
       Row("0640824", Niigata, Nagaoka, Wakigawa \o Others) >> }

LookupAddresses == {
    Tokyo \o Minato \o Roppongi,
    Tokyo \o Minato \o <<"hon">>,
    Hokkaido \o SapporoChuo \o Kita4Nishi \o <<"2", "5">> \o Chome,
    Niigata \o Nagaoka \o Wakigawa \o <<"9", "7", "0", "1">>,
    <<"SP">> }

InitLookups ==
    /\ rows \in LookupRegistries
    /\ index = _build_index(rows)
    /\ pc = [t \in Threads |-> "idle"]
    /\ address = [t \in Threads |-> <<>>]
    /\ normalized = [t \in Threads |-> <<>>]
    /\ ran = [t \in Threads |-> <<>>]
    /\ outcome = [t \in Threads |-> NoOutcome]
    /\ caller = "none"
    /\ http = 0

\* request t calls resolve(a)
LookupCall(t) ==
    /\ pc[t] = "idle"
    /\ \E a \in LookupAddresses : address' = [address EXCEPT ![t] = a]
    /\ pc' = [pc EXCEPT ![t] = "resolve"]
    /\ UNCHANGED <<rows, index, caller, normalized, ran, outcome, http>>

\* resolve, lines 28-32, in request t
LookupEnter(t) ==
    /\ pc[t] = "resolve"
    /\ LET n == normalize(address[t])
       IN  IF n.exc # "none"
           THEN /\ outcome' = [outcome EXCEPT ![t] = [exc |-> n.exc, val |-> NoneZip]]
                /\ pc' = [pc EXCEPT ![t] = "done"]
                /\ UNCHANGED normalized
           ELSE /\ normalized' = [normalized EXCEPT ![t] = n.val]
                /\ pc' = [pc EXCEPT ![t] = "phase1"]
                /\ UNCHANGED outcome
    /\ UNCHANGED <<rows, index, caller, address, ran, http>>

\* the phase function request t is about to call, applied to the index as
\* it is now
PhaseResult(t) ==
    CASE pc[t] = "phase1" -> _exact_match(index, normalized[t])
      [] pc[t] = "phase2" -> _fallback_search(index, normalized[t])
      [] pc[t] = "phase3" -> _generic_fallback_search(index, normalized[t])

\* what a phase does to the locals of request t
PhaseLocals(t, r) ==
    LET next == IF pc[t] = "phase1" THEN "phase2"
                ELSE IF pc[t] = "phase2" THEN "phase3" ELSE "done"
    IN  /\ ran' = [ran EXCEPT ![t] = Append(@, [phase |-> pc[t], val |-> r.val])]
        /\ IF r.exc # "none"
           THEN /\ outcome' = [outcome EXCEPT ![t] = [exc |-> r.exc, val |-> NoneZip]]
                /\ pc' = [pc EXCEPT ![t] = "done"]
           ELSE IF r.val # NoneZip \/ next = "done"
           THEN /\ outcome' = [outcome EXCEPT ![t] = [exc |-> "none", val |-> r.val]]
                /\ pc' = [pc EXCEPT ![t] = "done"]
           ELSE /\ pc' = [pc EXCEPT ![t] = next]
                /\ UNCHANGED outcome

\* a phase that remembers the code it found under the district it was asked
LookupPhase_memo(t) ==
    /\ pc[t] \in {"phase1", "phase2", "phase3"}
    /\ LET r == PhaseResult(t)
           parsed == parse_address(normalized[t])
       IN  /\ PhaseLocals(t, r)
           /\ index' = IF r.exc = "none" /\ r.val # NoneZip /\ parsed.exc = "none"
                       THEN InsertRow(index, Row(r.val, parsed.prefecture, parsed.city,
                                                 parsed.district))
                       ELSE index
    /\ UNCHANGED <<rows, caller, address, normalized, http>>

\* resolve, lines 35-45, in request t: one phase
LookupPhase(t) ==
    /\ pc[t] \in {"phase1", "phase2", "phase3"}
    /\ PhaseLocals(t, PhaseResult(t))
    /\ UNCHANGED <<rows, index, caller, address, normalized, http>>

\* request t has its answer
LookupReturn(t) ==
    /\ pc[t] = "done"
    /\ pc' = [pc EXCEPT ![t] = "idle"]
    /\ address' = [address EXCEPT ![t] = <<>>]
    /\ normalized' = [normalized EXCEPT ![t] = <<>>]
    /\ ran' = [ran EXCEPT ![t] = <<>>]
    /\ outcome' = [outcome EXCEPT ![t] = NoOutcome]
    /\ UNCHANGED <<rows, index, caller, http>>

NextLookups ==
    \/ \E t \in Threads : LookupCall(t)
    \/ \E t \in Threads : LookupEnter(t)
    \/ \E t \in Threads : LookupPhase(t)
    \/ \E t \in Threads : LookupReturn(t)

SpecLookups == InitLookups /\ [][NextLookups]_vars

\* resolve(a) run alone on the index built from the rows
ResolveAlone(a) ==
    LET built == _build_index(rows)
        n == normalize(a)
        r1 == _exact_match(built, n.val)
        r2 == _fallback_search(built, n.val)
        r3 == _generic_fallback_search(built, n.val)
    IN  IF n.exc # "none" THEN [exc |-> n.exc, val |-> NoneZip]
        ELSE IF r1.exc # "none" THEN [exc |-> r1.exc, val |-> NoneZip]
        ELSE IF r1.val # NoneZip THEN [exc |-> "none", val |-> r1.val]
        ELSE IF r2.exc # "none" THEN [exc |-> r2.exc, val |-> NoneZip]
        ELSE IF r2.val # NoneZip THEN [exc |-> "none", val |-> r2.val]
        ELSE IF r3.exc # "none" THEN [exc |-> r3.exc, val |-> NoneZip]
        ELSE [exc |-> "none", val |-> r3.val]

\* C19: whatever lookups have run or are running, the index equals the one
\* built from the rows at construction, and a lookup that has ended holds
\* the result resolve gives when run alone on the same address.
C19_IndexReadOnly ==
    /\ index = _build_index(rows)
    /\ \A t \in Threads : pc[t] = "done" => outcome[t] = ResolveAlone(address[t])

\* one request has its code from the second phase while another is between
\* its first and its second phase
C19_Witness ==
    /\ pc[1] = "done" /\ Len(ran[1]) = 2 /\ outcome[1].val = "0600004"
    /\ pc[2] = "phase2"
    /\ index = _build_index(rows)
\* ------------------------------------------------------------------------
\* Properties of partial addresses, of the stored keys and of Phase 2
\* ------------------------------------------------------------------------

\* C21 (as stated): resolve returns not-found for every address whose
\* district part after parsing is empty, whatever the registry holds.
C21_PartialIsNotFound ==
    (pc = "done" /\ ~IsBlank(address)) =>
        LET parsed == Parsed
        IN  (parsed.exc = "none" /\ parsed.district = <<>>)
            => outcome = [exc |-> "none", val |-> NoneZip]
\* ------------------------------------------------------------------------
\* _clean_district_name and the two kanji-word conversions, applied to short
\* strings
\* ------------------------------------------------------------------------

\* the most pieces a registry district is made of
MaxCleanPieces == 4
\* the longest kanji word converted
MaxWordLen == 3

CleanPieces == {
    <<"hon">>, <<"SP">>, <<"LP">>, <<"RP">>, <<"lp">>, <<"rp">>,
    <<"F1", "TILDE", "F1", "F9">> \o Chome, <<"F9", "ban", "chi">>,
    <<"so", "no", "ta">>, <<"BI", "RU">> }

KanjiWords == SeqsUpTo(KanjiNum \cup {"hon"}, MaxWordLen)

\* self._clean_district_name(district)
CleanDistrict ==
    /\ pc = "idle"
    /\ \E ps \in SeqsUpTo(CleanPieces, MaxCleanPieces) :
          /\ address' = Flatten(ps)
          /\ outcome' = [exc |-> "none", val |-> _clean_district_name(Flatten(ps))]
    /\ pc' = "_clean_district_name"
    /\ caller' = "direct"
    /\ UNCHANGED <<rows, index, normalized, ran, http>>

\* AddressResolver._convert_kanji_to_number(kanji_str)
ConvertKanjiToNumber ==
    /\ pc = "idle"
    /\ \E k \in KanjiWords :
          /\ address' = k
          /\ outcome' = [exc |-> "none", val |-> _convert_kanji_to_number(k)]
    /\ pc' = "_convert_kanji_to_number"
    /\ caller' = "direct"
    /\ UNCHANGED <<rows, index, normalized, ran, http>>

\* AddressNormalizer._convert_kanji_to_number_simple(kanji_str)
ConvertKanjiToNumberSimple ==
    /\ pc = "idle"
    /\ \E k \in KanjiWords :
          /\ address' = k
          /\ outcome' = [exc |-> "none", val |-> _convert_kanji_to_number_simple(k)]
    /\ pc' = "_convert_kanji_to_number_simple"
    /\ caller' = "direct"
    /\ UNCHANGED <<rows, index, normalized, ran, http>>

NextHelpers ==
    \/ CleanDistrict
    \/ ConvertKanjiToNumber
    \/ ConvertKanjiToNumberSimple
    \/ Returned

SpecHelpers == InitNoRows /\ [][NextHelpers]_vars

\* an opening parenthesis open stands somewhere before a closing close in s
HasPair(s, open, close) ==
    \E i, j \in 1..Len(s) : i < j /\ s[i] = open /\ s[j] = close
\* the parentheses of s, of both widths, come in pairs that neither nest nor
\* cross
FlatParens(s) ==
    LET ps == SelectSeq(s, LAMBDA c : c \in {"LP", "RP", "lp", "rp"})
    IN  /\ Len(ps) % 2 = 0
        /\ \A i \in 1..Len(ps) :
              i % 2 = 1 => <<ps[i], ps[i + 1]>> \in {<<"LP", "RP">>, <<"lp", "rp">>}
\* s without its parentheses and what stands between them, s being flat
RECURSIVE OutsideParens(_)
OutsideParens(s) ==
    IF s = <<>> THEN <<>>
    ELSE IF Head(s) \in {"LP", "lp"}
    THEN OutsideParens(From(s, 1 + FirstIdx({j \in 2..Len(s) : s[j] \in {"RP", "rp"}})))
    ELSE <<Head(s)>> \o OutsideParens(Tail(s))

MaxFallbackRows == 3

Lot970 == Wakigawa \o <<"LP", "F9", "F7", "F0", "ban", "chi", "RP">>
Lot980 == Wakigawa \o <<"LP", "F9", "F8", "F0", "ban", "chi", "RP">>

\* keys of Nagaoka that start with, contain or begin the area name Wakigawa
FallbackRows == {
    Row("0600004", Niigata, Nagaoka, Lot970),
    Row("0640824", Niigata, Nagaoka, Lot980),
    Row("1060032", Niigata, Nagaoka, Wakigawa \o Others),
    Row("1060032", Niigata, Nagaoka, Wakigawa),
    Row("0640824", Niigata, Nagaoka, <<"oo">> \o Wakigawa),
    Row("0600004", Niigata, Nagaoka, <<"waki">>) }

FallbackDistricts == {
    Wakigawa,
    Wakigawa \o <<"9", "7", "0">>,
    Wakigawa \o <<"9", "8", "0", "ban", "chi">>,
    Wakigawa \o <<"1">> \o Chome,
    <<"waki", "kawa">>,
    <<"kawa", "shin">>,
    <<"hon">> }

InitFallback ==
    /\ rows \in SeqsUpTo(FallbackRows, MaxFallbackRows)
    /\ index = _build_index(rows)
    /\ Idle

\* self._fallback_search(normalized)
CallFallback ==
    /\ pc = "idle"
    /\ \E d \in FallbackDistricts :
          /\ address' = Niigata \o Nagaoka \o d
          /\ outcome' = _fallback_search(index, Niigata \o Nagaoka \o d)
    /\ pc' = "_fallback_search"
    /\ caller' = "direct"
    /\ UNCHANGED <<rows, index, normalized, ran, http>>

NextFallback ==
    \/ CallFallback
    \/ Returned

SpecFallback == InitFallback /\ [][NextFallback]_vars

\* the keys of cd that variant v hits in a step: 1 the key starts with v,
\* 2 the key contains v, 3 v starts with the key
StepHits(cd, v, step) ==
    {i \in 1..Len(cd) :
        CASE step = 1 -> StartsWith(cd[i].district, v)
          [] step = 2 -> Contains(cd[i].district, v)
          [] step = 3 -> StartsWith(v, cd[i].district)}
\* the first <<variant, step>>, variants first, that hits a key; <<0, 0>>
\* when none does
FirstVariantStep(cd, variants) ==
    LET pairs == {p \in (1..Len(variants)) \X (1..3) : StepHits(cd, variants[p[1]], p[2]) # {}}
    IN  IF pairs = {} THEN <<0, 0>>
        ELSE CHOOSE p \in pairs :
                \A q \in pairs : p[1] < q[1] \/ (p[1] = q[1] /\ p[2] <= q[2])
\* the key is a specific-lot key: it holds LP and banchi RP
LotKey(d) == Contains(d, <<"LP">>) /\ Contains(d, <<"ban", "chi", "RP">>)

C24_LotOfInput ==
    pc = "_fallback_search" =>
        LET parsed == parse_address(address)
            cd == city_districts(index, parsed.prefecture, parsed.city)
            variants == generate_district_variants(parsed.district)
            first == FirstVariantStep(cd, variants)
            hits == StepHits(cd, variants[first[1]], 1)
            lots == {i \in hits : LotKey(cd[i].district)}
            named == {i \in lots : MatchesLot(parsed.district, cd[i].district)}
            others == {i \in hits \ lots : Contains(cd[i].district, Others)}
        IN  (first # <<0, 0>> /\ first[2] = 1 /\ lots # {}) =>
                IF named # {} THEN \E i \in named : outcome.val = cd[i].zipcode
                ELSE IF others # {} THEN outcome.val = cd[FirstIdx(others)].zipcode
                ELSE outcome.val = cd[FirstIdx(hits)].zipcode
\* C25 (as stated): for an input whose district is Base and "n chome", in a
\* city where every key with the area name Base is a chome-range key, when
\* n lies outside the range of every such key resolve does not return the
\* code of any of them.
C25_OutOfRangeIsNotRangeCode ==
    Resolved =>
    LET parsed == Parsed
        cd == city_districts(index, parsed.prefecture, parsed.city)
        d == parsed.district
    IN  \A n \in 1..MaxChome :
        LET Base == SubSeq(d, 1, Len(d) - Len(StrOf(n)) - 2)
            named == {i \in 1..Len(cd) :
                         _convert_kanji_numbers(BaseOfStored(cd[i].district)) = Base}
        IN  (/\ parsed.exc = "none"
             /\ Len(d) > Len(StrOf(n)) + 2
             /\ d = Base \o StrOf(n) \o Chome
             /\ Base[Len(Base)] \notin AnyDigit
             /\ named # {}
             /\ \A i \in named :
                   LET r == _extract_chome_range(cd[i].district)
                   IN  r # NoneRange /\ (n < r[1] \/ r[2] < n))
            => \A i \in named : outcome.val # cd[i].zipcode
\* C26 (as stated): every district key stored in the index is a non-empty,
\* non-whitespace string, and every entry comes from a row with at least 9
\* fields.
C26_KeysNotBlank ==
    \A k \in 1..Len(index) :
        /\ Strip(index[k].district) # <<>>
        /\ \E i \in 1..Len(rows) :
              /\ rows[i].nfields >= 9
              /\ TripleOf(rows[i]) = <<index[k].prefecture, index[k].city, index[k].district>>
              /\ rows[i].zipcode = index[k].zipcode
\* C27: a code resolve returns is stored in the index under the prefecture
\* and the city that parse_address yields for the normalized address; when
\* the address does not parse or that prefecture or city is not in the
\* index, resolve returns not-found.
C27_CodeOfParsedCity ==
    (pc = "done" /\ ~IsBlank(address)) =>
    LET parsed == Parsed
        inCity == {k \in 1..Len(index) :
                      /\ parsed.exc = "none"
                      /\ index[k].prefecture = parsed.prefecture
                      /\ index[k].city = parsed.city}
    IN  /\ outcome.exc = "none"
        /\ outcome.val # NoneZip => \E k \in inCity : index[k].zipcode = outcome.val
        /\ inCity = {} => outcome.val = NoneZip

\* the index holds a key of Kyoto and a key of Nagaoka under different
\* codes; an address of Nagaoka gets the code of Nagaoka
C27_Witness ==
    /\ Resolved
    /\ Len(index) = 2
    /\ index[1].prefecture = Kyoto /\ index[1].zipcode = "1060032"
    /\ index[2].city = Nagaoka /\ index[2].zipcode = "0640824"
    /\ address = Niigata \o Nagaoka \o Wakigawa
    /\ outcome.val = "0640824"
\* C28: both conversions of a kanji word to a number are defined on exactly
\* the 48 standard words: the standard word of n in 1..48 gives n, and
\* every other string (the empty one, a digit 1 before the ten as in
\* 1-10 and 1-10-1, a number above 48, other text) is unconvertible.
C28_StandardWordsOnly ==
    LET standard == {n \in 1..MaxKanjiNumber : KanjiOf(n) = address}
    IN  /\ pc = "_convert_kanji_to_number" =>
              /\ \A n \in standard : outcome.val = n
              /\ standard = {} => outcome.val = NoneInt
        /\ pc = "_convert_kanji_to_number_simple" =>
              /\ \A n \in standard : outcome.val = StrOf(n)
              /\ standard = {} => outcome.val = NoneStr
\* ------------------------------------------------------------------------
\* Properties of the base area name, variant (5)
\* ------------------------------------------------------------------------

\* the lengths of the prefixes of d that end in marker
PrefixLengths(d, marker) == {n \in 1..Len(d) : EndsWith(SubSeq(d, 1, n), marker)}

\* the variants of steps (1) to (4), stripped
StepsBeforeBase(d) ==
    {Strip(v) : v \in {d, _convert_arabic_to_kanji(d), CutChome(d),
                       _convert_arabic_to_kanji(CutChome(d)), CutHouseNumber(d)}}

\* C29 as stated: variant (5) is the longest prefix of the district that
\* ends in the first of the markers machi, shinden-machi, ooaza that occurs
\* in it, added only when it is non-empty and differs from the district.
C29_LongestPrefix ==
    pc = "generate_district_variants" =>
    LET d == address
        matching == {i \in 1..Len(base_patterns) : PrefixLengths(d, base_patterns[i]) # {}}
        first == FirstIdx(matching)
        base == IF first = 0 THEN <<>>
                ELSE SubSeq(d, 1, LastIdx(PrefixLengths(d, base_patterns[first])))
        added == first # 0 /\ base # d /\ Strip(base) # <<>>
    IN  /\ added => Strip(base) \in Range(outcome.val)
        /\ Range(outcome.val) \subseteq
              StepsBeforeBase(d) \cup (IF added THEN {Strip(base)} ELSE {})

\* C29 as amended: variant (5) is the shortest prefix of the district that
\* ends in a marker, for the first of the markers machi, shinden-machi,
\* ooaza whose shortest prefix is non-blank and differs from the district;
\* there is no variant (5) when no marker has such a prefix.
C29_ShortestPrefix ==
    pc = "generate_district_variants" =>
    LET d == address
        shortest == [i \in 1..Len(base_patterns) |->
                        FirstIdx(PrefixLengths(d, base_patterns[i]))]
        usable == {i \in 1..Len(base_patterns) :
                      /\ shortest[i] # 0
                      /\ shortest[i] # Len(d)
                      /\ Strip(SubSeq(d, 1, shortest[i])) # <<>>}
        first == FirstIdx(usable)
        base == IF first = 0 THEN <<>> ELSE SubSeq(d, 1, shortest[first])
    IN  /\ first # 0 =>
              /\ Strip(base) \in Range(outcome.val)
              /\ \/ outcome.val[Len(outcome.val)] = Strip(base)
                 \/ Strip(base) \in StepsBeforeBase(d)
        /\ Range(outcome.val) \subseteq
              StepsBeforeBase(d) \cup (IF first # 0 THEN {Strip(base)} ELSE {})

\* a district with the marker machi twice: the variant is the first machi
C29_Witness ==
    /\ pc = "generate_district_variants"
    /\ address = <<"machi", "kita", "machi", "1">>
    /\ outcome.val = << <<"machi", "kita", "machi", "1">>, <<"machi">> >>
=============================================================================
